---- MODULE Spec2Model ----
(***************************************************************************)
(* Model of the RAG multi-model agent (TypeScript sources):                *)
(*   EmbeddingService  (src/src/embedding-service.ts)                      *)
(*   RAGRetriever      (src/src/rag-retriever.ts, lines 5-125)             *)
(*   WebSearch         (src/src/rag-retriever.ts, lines 197-330)           *)
(*   RAGMultiModelAgent (src/unnamed/part_004)                             *)
(*                                                                         *)
(* A text is a sequence of tokens (strings); '' is the empty sequence; a   *)
(* template literal is the concatenation of its parts.  A whitespace token *)
(* is " ".  A similarity score is kept in thousandths (the vectors of the  *)
(* model have integer norms, so every cosine is an exact multiple of       *)
(* 1/1000).                                                                *)
(***************************************************************************)
EXTENDS Integers, Sequences, FiniteSets, TLC

\* ----------------------------------------------------------------- bounds
MaxDocs == 1          \* documents in the user's folder

\* ------------------------------------------------------------ input sets
NoValue == "<none>"

\* vectors the upstream embedding provider may answer with
Vecs == {<<1, 0>>, <<3, 4>>, <<1>>}

\* error messages of the external capabilities
EmbedErrors == {"quota exceeded"}
GenErrors == {"model overloaded", "network down"}

\* queries the caller may pass to process()
Queries == {<<"sky?">>, <<"t1">>}

\* the document folder: documents in directory order, each with its chunks
Corpus == << [name |-> "a.txt", chunks |-> << <<"t1">> >>],
             [name |-> "b.txt", chunks |-> << <<"t1">>, <<"t2">> >>],
             [name |-> "c.txt", chunks |-> << <<"t3">> >>] >>

\* ------------------------------------------------------------ text helpers
\* Array.prototype.join on an array of texts
RECURSIVE Join(_, _)
Join(ss, sep) ==
  IF ss = <<>> THEN <<>>
  ELSE IF Len(ss) = 1 THEN ss[1]
  ELSE ss[1] \o sep \o Join(Tail(ss), sep)

IsSpace(tok) == tok \in {" ", "\n", "\t"}

\* String.prototype.trim
RECURSIVE TrimLeft(_)
TrimLeft(t) == IF t # <<>> /\ IsSpace(Head(t)) THEN TrimLeft(Tail(t)) ELSE t

RECURSIVE TrimRight(_)
TrimRight(t) ==
  IF t # <<>> /\ IsSpace(t[Len(t)]) THEN TrimRight(SubSeq(t, 1, Len(t) - 1)) ELSE t

Trim(t) == TrimRight(TrimLeft(t))

\* t occurs in s as a contiguous run of tokens
Contains(s, t) ==
  \E i \in 0..(Len(s) - Len(t)) : SubSeq(s, i + 1, i + Len(t)) = t

\* a completion of an async function: a returned value or a thrown error
Return(v) == [threw |-> FALSE, value |-> v]
Throw(msg) == [threw |-> TRUE, message |-> msg]

\* ------------------------------------------------------- DocumentManager
\* getAllChunks: every chunk of every document, in document order
RECURSIVE ChunksOfDoc(_, _)
ChunksOfDoc(doc, i) ==
  IF i > Len(doc.chunks) THEN <<>>
  ELSE << [text |-> doc.chunks[i], source |-> doc.name, chunkIndex |-> i - 1] >>
       \o ChunksOfDoc(doc, i + 1)

RECURSIVE getAllChunks(_)
getAllChunks(docs) ==
  IF docs = <<>> THEN <<>>
  ELSE ChunksOfDoc(Head(docs), 1) \o getAllChunks(Tail(docs))

\* ------------------------------------------------------ EmbeddingService
\* generateEmbedding whose catch returns an empty vector instead of
\* rethrowing
generateEmbeddingDefault(cache, text, up) ==
  IF text \in DOMAIN cache
    THEN [ret |-> Return(cache[text]), cache |-> cache, called |-> FALSE]
    ELSE IF up.threw
      THEN [ret |-> Return(<<>>), cache |-> cache, called |-> TRUE]
      ELSE [ret |-> Return(up.value),
            cache |-> [t \in (DOMAIN cache) \cup {text} |->
                         IF t = text THEN up.value ELSE cache[t]],
            called |-> TRUE]

\* generateEmbedding(text) against cache `cache`, the upstream answering
\* `up` (a vector, or a Throw).  Gives the completion and the new cache.
generateEmbedding(cache, text, up) ==
  IF text \in DOMAIN cache
    THEN [ret |-> Return(cache[text]), cache |-> cache, called |-> FALSE]
    ELSE IF up.threw
      THEN [ret |-> up, cache |-> cache, called |-> TRUE]
      ELSE [ret |-> Return(up.value),
            cache |-> [t \in (DOMAIN cache) \cup {text} |->
                         IF t = text THEN up.value ELSE cache[t]],
            called |-> TRUE]

RECURSIVE Dot(_, _)
Dot(a, b) == IF a = <<>> THEN 0 ELSE a[1] * b[1] + Dot(Tail(a), Tail(b))

\* Math.sqrt on the perfect squares the model's vectors produce
Sqrt(n) == CHOOSE r \in 0..n : r * r = n

LengthMismatch == "Embeddings must have the same length"

\* cosineSimilarity (TypeScript): throws on a length mismatch
cosineSimilarity(embeddingA, embeddingB) ==
  IF Len(embeddingA) # Len(embeddingB) THEN Throw(LengthMismatch)
  ELSE LET dotProduct == Dot(embeddingA, embeddingB)
           normA == Sqrt(Dot(embeddingA, embeddingA))
           normB == Sqrt(Dot(embeddingB, embeddingB))
       IN IF normA = 0 \/ normB = 0 THEN Return(0)
          ELSE Return((1000 * dotProduct) \div (normA * normB))

\* ---------------------------------------------------------- RAGRetriever
\* the key `${chunk.source}-${chunk.chunkIndex}` of a chunk's embedding
ChunkKey(chunk) == <<chunk.source, "-", ToString(chunk.chunkIndex)>>

MapSet(m, k, v) == [x \in (DOMAIN m) \cup {k} |-> IF x = k THEN v ELSE m[x]]

EmptyMap == [x \in {} |-> NoValue]

\* the loop body without its try/catch: the failure leaves indexDocuments
IndexChunkNoCatch(index, cache, chunk, up) ==
  LET e == generateEmbedding(cache, chunk.text, up)
  IN IF e.ret.threw
       THEN [ret |-> e.ret, index |-> index, cache |-> e.cache]
       ELSE [ret |-> Return(NoValue),
             index |-> MapSet(index, ChunkKey(chunk), e.ret.value),
             cache |-> e.cache]

\* one iteration of the loop of indexDocuments: the embedding of one chunk
\* is requested; a failure is caught and logged, the chunk gets no entry
IndexChunk(index, cache, chunk, up) ==
  LET e == generateEmbedding(cache, chunk.text, up)
  IN IF e.ret.threw
       THEN [ret |-> Return(NoValue), index |-> index, cache |-> e.cache]
       ELSE [ret |-> Return(NoValue),
             index |-> MapSet(index, ChunkKey(chunk), e.ret.value),
             cache |-> e.cache]

\* the scoring loop of retrieve: one entry per chunk that has an embedding;
\* a throw of cosineSimilarity ends the loop
RECURSIVE ScoreChunks(_, _, _)
ScoreChunks(chunks, index, queryEmbedding) ==
  IF chunks = <<>> THEN Return(<<>>)
  ELSE LET chunk == Head(chunks)
           chunkKey == ChunkKey(chunk)
       IN IF chunkKey \in DOMAIN index
            THEN LET similarity == cosineSimilarity(queryEmbedding, index[chunkKey])
                 IN IF similarity.threw THEN similarity
                    ELSE LET rest == ScoreChunks(Tail(chunks), index, queryEmbedding)
                         IN IF rest.threw THEN rest
                            ELSE Return(<< [text |-> chunk.text,
                                            score |-> similarity.value,
                                            source |-> chunk.source] >> \o rest.value)
            ELSE ScoreChunks(Tail(chunks), index, queryEmbedding)

\* Array.prototype.sort with (a, b) => b.score - a.score: stable, descending
RECURSIVE InsertByScore(_, _)
InsertByScore(sorted, x) ==
  IF sorted = <<>> THEN <<x>>
  ELSE IF x.score - Head(sorted).score > 0
         THEN <<x>> \o sorted
         ELSE <<Head(sorted)>> \o InsertByScore(Tail(sorted), x)

RECURSIVE SortByScore(_)
SortByScore(s) ==
  IF s = <<>> THEN <<>>
  ELSE InsertByScore(SortByScore(SubSeq(s, 1, Len(s) - 1)), s[Len(s)])

\* Array.prototype.slice(0, end)
SliceTo(s, end) ==
  LET e == IF end < 0 THEN (IF Len(s) + end < 0 THEN 0 ELSE Len(s) + end)
           ELSE IF end > Len(s) THEN Len(s) ELSE end
  IN SubSeq(s, 1, e)

\* retrieve without its sort: the scored chunks are sliced in chunk order
retrieveUnsorted(index, cache, docs, query, topK, up) ==
  IF DOMAIN index = {}
    THEN [ret |-> Return(<<>>), cache |-> cache, called |-> FALSE]
    ELSE LET q == generateEmbedding(cache, query, up)
         IN IF q.ret.threw THEN q
            ELSE LET scores == ScoreChunks(getAllChunks(docs), index, q.ret.value)
                 IN [ret |-> IF scores.threw THEN scores
                             ELSE Return(SliceTo(scores.value, topK)),
                     cache |-> q.cache, called |-> q.called]

\* retrieve(query, topK)
retrieve(index, cache, docs, query, topK, up) ==
  IF DOMAIN index = {}
    THEN [ret |-> Return(<<>>), cache |-> cache, called |-> FALSE]
    ELSE LET q == generateEmbedding(cache, query, up)
         IN IF q.ret.threw THEN q
            ELSE LET scores == ScoreChunks(getAllChunks(docs), index, q.ret.value)
                 IN [ret |-> IF scores.threw THEN scores
                             ELSE Return(SliceTo(SortByScore(scores.value), topK)),
                     cache |-> q.cache, called |-> q.called]

EmptyContextSentinel == <<"No relevant document context found.">>

\* (score * 100).toFixed(1) of a score kept in thousandths
Percent(score) ==
  IF score < 0
    THEN <<"-", ToString((0 - score) \div 10), ".", ToString((0 - score) % 10)>>
    ELSE <<ToString(score \div 10), ".", ToString(score % 10)>>

RECURSIVE FormatChunks(_, _)
FormatChunks(chunks, index) ==
  IF chunks = <<>> THEN <<>>
  ELSE << "[", ToString(index), "] From ", Head(chunks).source, " (Relevance: " >>
       \o Percent(Head(chunks).score) \o << "%):\n" >>
       \o Head(chunks).text \o << "\n\n" >>
       \o FormatChunks(Tail(chunks), index + 1)

\* formatContext without the test of chunks.length
formatContextNoSentinel(chunks) ==
  << "Relevant document context:\n\n" >> \o FormatChunks(chunks, 1)

\* formatContext(chunks)
formatContext(chunks) ==
  IF Len(chunks) = 0 THEN EmptyContextSentinel
  ELSE << "Relevant document context:\n\n" >> \o FormatChunks(chunks, 1)

\* -------------------------------------------------------------- WebSearch
\* answers of the generative model used by WebSearch.enhanceQuery
EnhanceAnswers == {<<"sky", " ", "colour">>, <<" ">>}

\* answers of the search backend: fetch rejects, a non-ok status, or JSON
TransportError == [kind |-> "throw", message |-> "fetch failed"]
BadStatus == [kind |-> "status", statusText |-> "Too Many Requests"]
Hit == [title |-> <<"Sky">>, url |-> <<"http://sky">>, content |-> <<"blue">>]
FullData == [kind |-> "data", answer |-> <<"it is blue">>, results |-> <<Hit>>]
BareData == [kind |-> "data", answer |-> <<>>, results |-> <<>>]
BackendAnswers == {TransportError, BadStatus, FullData, BareData}

Unconfigured ==
  <<"Web search is not configured. Please add TAVILY_API_KEY to your environment variables.">>

\* WebSearch.enhanceQuery without its try/catch: the failure of
\* generateContent reaches the caller
WebSearch_enhanceQueryNoCatch(originalQuery, documentContext, gen) ==
  IF gen.threw THEN Throw(gen.message) ELSE Return(Trim(gen.value))

\* WebSearch.enhanceQuery(originalQuery, documentContext); gen is the
\* completion of model.generateContent
WebSearch_enhanceQuery(originalQuery, documentContext, gen) ==
  IF gen.threw THEN Return(originalQuery) ELSE Return(Trim(gen.value))

\* WebSearch.search(query, maxResults); backend is the answer to the fetch
WebSearch_search(apiKey, query, maxResults, backend) ==
  IF ~apiKey
    THEN Return([aiSummary |-> Unconfigured, results |-> <<>>])
    ELSE IF backend.kind = "throw"
      THEN Return([aiSummary |-> <<"Web search failed: ", backend.message>>,
                   results |-> <<>>])
    ELSE IF backend.kind = "status"
      THEN Return([aiSummary |-> <<"Web search failed: ", "Tavily API error: ",
                                  backend.statusText>>,
                   results |-> <<>>])
    ELSE Return([aiSummary |-> IF backend.answer # <<>> THEN backend.answer
                               ELSE <<"No AI summary available">>,
                 results |-> backend.results])

RECURSIVE FormatHits(_, _)
FormatHits(results, index) ==
  IF results = <<>> THEN <<>>
  ELSE <<"\n", ToString(index), ". ">> \o Head(results).title \o <<"\n">>
       \o <<"   URL: ">> \o Head(results).url \o <<"\n">>
       \o <<"   ">> \o Head(results).content \o <<"\n">>
       \o FormatHits(Tail(results), index + 1)

\* WebSearch.formatResults(searchResult)
formatResults(searchResult) ==
  <<"AI Summary: ">> \o searchResult.aiSummary \o <<"\n\n">>
  \o (IF Len(searchResult.results) > 0
        THEN <<"Web Results:\n">> \o FormatHits(searchResult.results, 1)
        ELSE <<>>)

\* ----------------------------------------------------- RAGMultiModelAgent
freeModel == "gemini-2.5-flash-lite"

\* this.evaluationModels, as the constructor sets it
evaluationModels ==
  << [provider |-> "google-ai", model |-> freeModel, name |-> "Evaluator-1"],
     [provider |-> "google-ai", model |-> freeModel, name |-> "Evaluator-2"],
     [provider |-> "google-ai", model |-> freeModel, name |-> "Evaluator-3"] >>

Judges == 1..Len(evaluationModels)

topK == 3

\* results of neurolink.generate: the text may come in any of three fields
\* (an absent field is the empty text)
TextResult == [text |-> <<"fine">>, content |-> <<>>, response |-> <<>>]
ResponseResult == [text |-> <<>>, content |-> <<>>, response |-> <<"so-so">>]
EmptyResult == [text |-> <<>>, content |-> <<>>, response |-> <<>>]
GenResults == {TextResult, ResponseResult, EmptyResult}

\* result.text || result.content || result.response || ''
ResultText(result) ==
  IF result.text # <<>> THEN result.text
  ELSE IF result.content # <<>> THEN result.content
  ELSE IF result.response # <<>> THEN result.response
  ELSE <<>>

\* [...new Set(chunks.map(c => c.source))]
RECURSIVE UniqueSources(_, _)
UniqueSources(chunks, seen) ==
  IF chunks = <<>> THEN <<>>
  ELSE IF Head(chunks).source \in seen THEN UniqueSources(Tail(chunks), seen)
  ELSE <<Head(chunks).source>>
       \o UniqueSources(Tail(chunks), seen \cup {Head(chunks).source})

\* retrieveDocumentContext without its test of chunks.length: formatContext
\* is applied to every result of retrieve
retrieveDocumentContextAlwaysFormats(retrieved) ==
  IF retrieved.threw THEN retrieved
  ELSE Return([context |-> formatContext(retrieved.value),
               chunks |-> retrieved.value,
               sources |-> UniqueSources(retrieved.value, {})])

\* retrieveDocumentContext, given the completion of ragRetriever.retrieve
retrieveDocumentContext(retrieved) ==
  IF retrieved.threw THEN retrieved
  ELSE IF Len(retrieved.value) = 0
    THEN Return([context |-> <<>>, chunks |-> <<>>, sources |-> <<>>])
    ELSE Return([context |-> formatContext(retrieved.value),
                 chunks |-> retrieved.value,
                 sources |-> UniqueSources(retrieved.value, {})])

\* enhanceQuery(userQuery, documentContext): no call without a context
EnhanceCalls(documentContext) == Len(documentContext) # 0

enhanceQuery(query, documentContext, gen) ==
  IF ~EnhanceCalls(documentContext)
    THEN Return([original |-> query, enhanced |-> query])
    ELSE LET enhanced == WebSearch_enhanceQuery(query, documentContext, gen)
         IN IF enhanced.threw THEN enhanced
            ELSE Return([original |-> query, enhanced |-> enhanced.value])

\* performWebSearch(enhancedQuery)
performWebSearch(apiKey, enhancedQuery, backend) ==
  WebSearch_search(apiKey, enhancedQuery, 3, backend)

\* a prompt that always carries the search result, whatever its result list
DraftPromptAlways(query, documentContext, webSearchResults) ==
  LET hasDocuments == Len(documentContext) > 0
  IN IF hasDocuments
       THEN <<"PRIORITIZE the uploaded document content", "**User Query:**\n">>
            \o query
            \o <<"**PRIMARY SOURCE - UPLOADED DOCUMENT CONTENT:**\n">>
            \o documentContext
            \o <<"**SUPPLEMENTARY SOURCE - Web Search Results (for additional context):**\n">>
            \o formatResults(webSearchResults)
            \o <<"**Your Response:**">>
       ELSE <<"Use web search results as a fallback.", "**User Query:**\n">>
            \o query
            \o <<"**Note:** No relevant information found in uploaded documents.",
                 "**Web Search Results:**\n">>
            \o formatResults(webSearchResults)
            \o <<"**Your Response:**">>

\* the prompt generateResponse builds (fixed instruction text abridged)
DraftPrompt(query, documentContext, webSearchResults) ==
  LET hasDocuments == Len(documentContext) > 0
      hasWebResults == Len(webSearchResults.results) > 0
  IN IF hasDocuments
       THEN <<"PRIORITIZE the uploaded document content", "**User Query:**\n">>
            \o query
            \o <<"**PRIMARY SOURCE - UPLOADED DOCUMENT CONTENT:**\n">>
            \o documentContext
            \o (IF hasWebResults
                  THEN <<"**SUPPLEMENTARY SOURCE - Web Search Results (for additional context):**\n">>
                       \o formatResults(webSearchResults)
                  ELSE <<>>)
            \o <<"**Your Response:**">>
     ELSE IF hasWebResults
       THEN <<"Use web search results as a fallback.", "**User Query:**\n">>
            \o query
            \o <<"**Note:** No relevant information found in uploaded documents.",
                 "**Web Search Results:**\n">>
            \o formatResults(webSearchResults)
            \o <<"**Your Response:**">>
     ELSE <<"You are a helpful AI assistant. ", "**User Query:**\n">>
          \o query
          \o <<"**Note:** No documents have been uploaded and no web search results are available.",
               "**Your Response:**\n">>

\* generateResponse: a failure of the generation call is logged and rethrown
generateResponse(gen) ==
  IF gen.threw THEN Throw(gen.message) ELSE Return(ResultText(gen.value))

\* JudgeCallback without its catch block: the failure rejects the promise
JudgeCallbackNoCatch(evalModel, gen) ==
  IF gen.threw THEN Throw(gen.message)
  ELSE Return([evaluatorName |-> evalModel.name, model |-> evalModel.model,
               provider |-> evalModel.provider,
               evaluation |-> ResultText(gen.value), error |-> FALSE])

\* JudgeCallback whose catch block forgets the error flag
JudgeCallbackNoFlag(evalModel, gen) ==
  [threw |-> FALSE,
   value |-> [evaluatorName |-> evalModel.name, model |-> evalModel.model,
              provider |-> evalModel.provider,
              evaluation |-> IF gen.threw THEN <<"Error: ", gen.message>>
                             ELSE ResultText(gen.value),
              error |-> FALSE]]

\* the callback evaluateResponse maps over this.evaluationModels, from its
\* await on: the completion of the promise of one judge.  (The error field
\* is absent on success, which reads as false; timestamps are left out.)
JudgeCallback(evalModel, gen) ==
  IF gen.threw
    THEN Return([evaluatorName |-> evalModel.name, model |-> evalModel.model,
                 provider |-> evalModel.provider,
                 evaluation |-> <<"Error: ", gen.message>>, error |-> TRUE])
    ELSE Return([evaluatorName |-> evalModel.name, model |-> evalModel.model,
                 provider |-> evalModel.provider,
                 evaluation |-> ResultText(gen.value), error |-> FALSE])

\* a loop that awaits each judge before starting the next starts one judge
MapStartsFirstOnly(models) == {1}

\* the judges whose callback Array.prototype.map runs (each up to its
\* await, that is, up to its generate call) before evaluateResponse awaits
MapStarts(models) == 1..Len(models)

Pending == [state |-> "pending"]
Idle == [state |-> "idle"]
Settled(completion) ==
  IF completion.threw THEN [state |-> "rejected", message |-> completion.message]
  ELSE [state |-> "fulfilled", value |-> completion.value]

\* values pushed in completion order
PromiseAllSlotByCompletion(j, settledBefore) == settledBefore + 1

\* Promise.all: the slot a settled promise's value is stored in
PromiseAllSlot(j, settledBefore) == j

\* Promise.all over promises ps, values collected so far in vals:
\* rejects with the first rejection, resolves when every value is there
PromiseAll(ps, vals, firstRejection) ==
  IF firstRejection.state = "rejected" THEN firstRejection
  ELSE IF \A j \in DOMAIN ps : ps[j].state = "fulfilled"
    THEN [state |-> "fulfilled", value |-> vals]
    ELSE Pending

\* a filter that keeps every evaluation
KeepEvaluationAll(e) == TRUE

\* a filter with the test inverted
KeepEvaluationInverted(e) == e.error

\* evaluations.filter(e => !e.error)
KeepEvaluation(e) == ~e.error

SummaryBlock(e) == <<"### ", e.evaluatorName, " Evaluation:\n">> \o e.evaluation

RECURSIVE SummaryBlocks(_)
SummaryBlocks(evals) ==
  IF evals = <<>> THEN <<>>
  ELSE (IF KeepEvaluation(Head(evals)) THEN <<SummaryBlock(Head(evals))>> ELSE <<>>)
       \o SummaryBlocks(Tail(evals))

EvaluationsSummary(evals) == Join(SummaryBlocks(evals), <<"\n\n">>)

\* the prompt aggregateAndFinalize builds, by section
AggregationPrompt(query, initialResponse, evals, sources) ==
  [query |-> query,
   initialResponse |-> initialResponse,
   sources |-> Join([i \in 1..Len(sources) |-> <<sources[i]>>], <<", ">>),
   evaluations |-> EvaluationsSummary(evals)]

aggregatorModel == freeModel
aggregatorProvider == "google-ai"

\* aggregateAndFinalize with a catch block that answers with a fallback
aggregateAndFinalizeFallback(gen) ==
  Return([finalResponse |-> IF gen.threw THEN <<>> ELSE ResultText(gen.value),
          metadata |-> [aggregatorModel |-> aggregatorModel,
                        aggregatorProvider |-> aggregatorProvider]])

\* aggregateAndFinalize, from its generate call on: a failure is logged and
\* rethrown
aggregateAndFinalize(gen) ==
  IF gen.threw THEN Throw(gen.message)
  ELSE Return([finalResponse |-> ResultText(gen.value),
               metadata |-> [aggregatorModel |-> aggregatorModel,
                             aggregatorProvider |-> aggregatorProvider]])

\* a catch block that logs and rethrows
ProcessCatchRethrow(message, query) == Throw(message)

\* the catch block of process
ProcessCatch(message, query) ==
  Return([success |-> FALSE, error |-> message, userQuery |-> query])

\* ============================================================ the state
VARIABLES
  documents,        \* DocumentManager.documents, as loaded by initialize
  tavilyApiKey,     \* WebSearch.tavilyApiKey is set
  embeddingCache,   \* EmbeddingService.embeddingCache
  chunkEmbeddings,  \* RAGRetriever.chunkEmbeddings
  indexPc,          \* "new", "indexing", "ready", "failed"
  indexI,           \* loop variable of indexDocuments (1-based)
  indexRet,         \* completion of indexDocuments
  embedFailed,      \* chunks (by position) whose embedding call failed
  pc,               \* position of process()
  userQuery,
  retrieval,
  queryEnhancement,
  webResults,
  draftPrompt,
  response,
  judgeCall,        \* per judge: its generate call
  promise,          \* per judge: the promise of its callback
  allValues,        \* the values array Promise.all fills
  firstRejection,   \* the rejection Promise.all saw first, if any
  evalRet,          \* completion of evaluateResponse
  aggregationPrompt,
  aggRet,           \* completion of aggregateAndFinalize
  result,           \* completion of process()
  hist,             \* what the environment did in each stage of this run
  call,             \* the last call made on a component directly, and its outcome
  js,               \* the CommonJS RAGRetriever: its fields and indexDocuments' position
  firstVector,      \* per text: the vector its first successful embedding returned
                    \* to a direct caller since the last clearing of the cache
  inflight,         \* the texts of the generateEmbedding calls that missed the
                    \* cache and await the provider, in the order they began
  chunker,          \* chunkDocument: its arguments, its locals and its position
  server            \* the web server: tempUserId, userAgents, the documents
                    \* folders on disk and the requests in flight

vars == << documents, tavilyApiKey, embeddingCache, chunkEmbeddings, indexPc,
           indexI, indexRet, embedFailed, pc, userQuery, retrieval,
           queryEnhancement, webResults, draftPrompt, response, judgeCall,
           promise, allValues, firstRejection, evalRet, aggregationPrompt, aggRet,
           result, hist, call, js, firstVector, inflight, chunker, server >>

pureVars == << firstVector, inflight, chunker, server >>

libVars == << call, js, firstVector, inflight, chunker, server >>

serviceVars == << documents, tavilyApiKey, embeddingCache, chunkEmbeddings,
                  indexPc, indexI, indexRet, embedFailed >>
judgeVars == << judgeCall, promise, allValues, firstRejection >>

Unset == [unset |-> TRUE]
NoRetrieval == [context |-> <<>>, chunks |-> <<>>, sources |-> <<>>]
NoEnhancement == [original |-> <<>>, enhanced |-> <<>>]
NoWebResults == [aiSummary |-> <<>>, results |-> <<>>]
NoPrompt == [query |-> <<>>, initialResponse |-> <<>>, sources |-> <<>>,
             evaluations |-> <<>>]
\* external calls issued in this run, per stage and per judge
NoCalls == [enhance |-> 0, search |-> 0, draft |-> 0, aggregate |-> 0,
            judge |-> [j \in Judges |-> 0]]

NoHist == [retrieve |-> "none", enhance |-> "none", search |-> "none",
           draft |-> "none", aggregate |-> "none", thrown |-> NoValue,
           outOfOrder |-> FALSE, calls |-> NoCalls]

\* answers the environment may give
EmbedAnswers == {Return(v) : v \in Vecs} \cup {Throw(m) : m \in EmbedErrors}
GenAnswers == {Return(r) : r \in GenResults} \cup {Throw(m) : m \in GenErrors}
DraftAnswers == {Return(TextResult), Return(EmptyResult)} \cup {Throw(m) : m \in GenErrors}
JudgeAnswers == {Return(TextResult), Throw("model overloaded")}
EnhanceGenAnswers == {Return(t) : t \in EnhanceAnswers} \cup {Throw("network down")}

\* no component has been called directly
NoCall == [op |-> "none", phase |-> NoValue, query |-> <<>>, topK |-> 0,
           context |-> <<>>, called |-> FALSE, enhanced |-> <<>>,
           answer |-> NoValue, before |-> EmptyMap, ret |-> Unset,
           evaluatorCount |-> 0]

\* chunkDocument is not running
NoChunker == [pc |-> "idle", content |-> <<>>, chunkSize |-> 0, overlap |-> 0,
              words |-> <<>>, i |-> 0, chunks |-> <<>>, steps |-> 0]

\* the web server after start: no agent, no request, empty folders
NoServer == [tempUserId |-> "default", userAgents |-> EmptyMap,
             folders |-> [u \in {"default", "u1", "u2"} |-> {}],
             reqs |-> <<>>]

\* the error of the CommonJS retrieve on a retriever that is not indexed
NotIndexed == "Documents not indexed. Call indexDocuments() first."

\* constructor of the CommonJS RAGRetriever
JsNew == [isIndexed |-> FALSE, indexedChunks |-> <<>>, documents |-> <<>>,
          cache |-> EmptyMap, pc |-> "new", embeddings |-> <<>>]

LocalsInit ==
  /\ pc = "idle"
  /\ userQuery = <<>>
  /\ retrieval = NoRetrieval
  /\ queryEnhancement = NoEnhancement
  /\ webResults = NoWebResults
  /\ draftPrompt = <<>>
  /\ response = <<>>
  /\ judgeCall = [j \in Judges |-> Idle]
  /\ promise = [j \in Judges |-> Idle]
  /\ allValues = [j \in Judges |-> Unset]
  /\ firstRejection = Idle
  /\ evalRet = Unset
  /\ aggregationPrompt = NoPrompt
  /\ aggRet = Unset
  /\ result = Unset
  /\ hist = NoHist

Init ==
  /\ documents \in {SubSeq(Corpus, 1, n) : n \in 0..MaxDocs}
  /\ tavilyApiKey \in BOOLEAN
  /\ embeddingCache = EmptyMap
  /\ chunkEmbeddings = EmptyMap
  /\ indexPc = "new"
  /\ indexI = 1
  /\ indexRet = Unset
  /\ embedFailed = {}
  /\ LocalsInit
  /\ call = NoCall
  /\ js = JsNew
  /\ firstVector = EmptyMap
  /\ inflight = <<>>
  /\ server = NoServer
  /\ chunker = NoChunker

\* the evaluatorCount a caller passes in the configuration
EvaluatorCounts == {1, 2, 3}

\* new RAGMultiModelAgent({ documentsPath, evaluatorCount: n }): the
\* constructor reads documentsPath, provider and model of its configuration
\* and sets the three evaluation models and topK itself
Constructed(n) ==
  [NoCall EXCEPT !.op = "new RAGMultiModelAgent", !.evaluatorCount = n]

\* the agent after construction with a configured evaluatorCount
InitConfigured ==
  /\ documents \in {SubSeq(Corpus, 1, n) : n \in 0..MaxDocs}
  /\ tavilyApiKey \in BOOLEAN
  /\ embeddingCache = EmptyMap
  /\ chunkEmbeddings = EmptyMap
  /\ indexPc = "new"
  /\ indexI = 1
  /\ indexRet = Unset
  /\ embedFailed = {}
  /\ LocalsInit
  /\ call \in {Constructed(n) : n \in EvaluatorCounts}
  /\ js = JsNew
  /\ firstVector = EmptyMap
  /\ inflight = <<>>
  /\ server = NoServer
  /\ chunker = NoChunker

processVars == << pc, userQuery, retrieval, queryEnhancement, webResults,
                  draftPrompt, response, judgeCall, promise, allValues, firstRejection,
                  evalRet, aggregationPrompt, aggRet, result, hist >>

\* --------------------------------------------- initialize / indexDocuments
\* indexDocuments up to its first await: no chunks, no work
IndexStart ==
  /\ UNCHANGED libVars
  /\ indexPc = "new"
  /\ IF Len(getAllChunks(documents)) = 0
       THEN indexPc' = "ready" /\ indexRet' = Return(NoValue)
       ELSE indexPc' = "indexing" /\ indexRet' = indexRet
  /\ UNCHANGED << documents, tavilyApiKey, embeddingCache, chunkEmbeddings,
                  indexI, embedFailed >>
  /\ UNCHANGED processVars

\* one iteration of the loop, the embedding provider answering `up`
IndexStep(up) ==
  /\ UNCHANGED libVars
  /\ indexPc = "indexing"
  /\ LET chunks == getAllChunks(documents)
         chunk == chunks[indexI]
         step == IndexChunk(chunkEmbeddings, embeddingCache, chunk, up)
         failed == chunk.text \notin DOMAIN embeddingCache /\ up.threw
     IN /\ chunkEmbeddings' = step.index
        /\ embeddingCache' = step.cache
        /\ embedFailed' = IF failed THEN embedFailed \cup {indexI} ELSE embedFailed
        /\ IF step.ret.threw
             THEN indexPc' = "failed" /\ indexRet' = step.ret /\ indexI' = indexI
             ELSE IF indexI = Len(chunks)
               THEN indexPc' = "ready" /\ indexRet' = Return(NoValue) /\ indexI' = indexI
               ELSE indexPc' = "indexing" /\ indexRet' = indexRet /\ indexI' = indexI + 1
  /\ UNCHANGED << documents, tavilyApiKey >>
  /\ UNCHANGED processVars

\* ------------------------------------------------------------- process()
\* process() entered: runs up to the await inside retrieve
ProcessStart(q) ==
  /\ UNCHANGED libVars
  /\ pc = "idle"
  /\ indexPc = "ready"
  /\ userQuery' = q
  /\ pc' = "retrieve"
  /\ UNCHANGED serviceVars
  /\ UNCHANGED << retrieval, queryEnhancement, webResults, draftPrompt, response,
                  evalRet, aggregationPrompt, aggRet, result, hist >>
  /\ UNCHANGED judgeVars

\* an error reaches the catch block of process
Caught(message) ==
  /\ result' = ProcessCatch(message, userQuery)
  /\ pc' = "done"

\* step 1: retrieveDocumentContext, the embedding provider answering `up`
DoRetrieve(up) ==
  /\ UNCHANGED libVars
  /\ pc = "retrieve"
  /\ LET r == retrieve(chunkEmbeddings, embeddingCache, documents, userQuery, topK, up)
         rc == retrieveDocumentContext(r.ret)
     IN /\ embeddingCache' = r.cache
        /\ IF rc.threw
             THEN /\ Caught(rc.message)
                  /\ hist' = [hist EXCEPT !.retrieve = "fail", !.thrown = rc.message]
                  /\ retrieval' = retrieval
             ELSE /\ retrieval' = rc.value
                  /\ hist' = [hist EXCEPT !.retrieve = "ok"]
                  /\ pc' = "enhance"
                  /\ result' = result
  /\ UNCHANGED << documents, tavilyApiKey, chunkEmbeddings, indexPc, indexI,
                  indexRet, embedFailed >>
  /\ UNCHANGED << userQuery, queryEnhancement, webResults, draftPrompt, response,
                  evalRet, aggregationPrompt, aggRet >>
  /\ UNCHANGED judgeVars

\* step 2: enhanceQuery, the generative model answering `gen`
DoEnhance(gen) ==
  /\ UNCHANGED libVars
  /\ pc = "enhance"
  /\ LET c == enhanceQuery(userQuery, retrieval.context, gen)
     IN IF c.threw
          THEN /\ Caught(c.message)
               /\ queryEnhancement' = queryEnhancement
          ELSE /\ queryEnhancement' = c.value
               /\ pc' = "search"
               /\ result' = result
  /\ hist' = [hist EXCEPT
                !.enhance = IF ~EnhanceCalls(retrieval.context) THEN "skipped"
                            ELSE IF gen.threw THEN "fail" ELSE "ok",
                !.calls.enhance = IF EnhanceCalls(retrieval.context) THEN @ + 1 ELSE @]
  /\ UNCHANGED serviceVars
  /\ UNCHANGED << userQuery, retrieval, webResults, draftPrompt, response, evalRet,
                  aggregationPrompt, aggRet >>
  /\ UNCHANGED judgeVars

\* step 3: performWebSearch, the search backend answering `backend`
\* (generateResponse then runs up to its generate call)
DoSearch(backend) ==
  /\ UNCHANGED libVars
  /\ pc = "search"
  /\ LET c == performWebSearch(tavilyApiKey, queryEnhancement.enhanced, backend)
     IN IF c.threw
          THEN /\ Caught(c.message)
               /\ webResults' = webResults
               /\ draftPrompt' = draftPrompt
          ELSE /\ webResults' = c.value
               /\ draftPrompt' = DraftPrompt(userQuery, retrieval.context, c.value)
               /\ pc' = "generate"
               /\ result' = result
  /\ hist' = [hist EXCEPT
                !.search = IF ~tavilyApiKey THEN "skipped"
                           ELSE IF backend.kind \in {"throw", "status"} THEN "fail"
                           ELSE "ok",
                !.calls.search = IF tavilyApiKey THEN @ + 1 ELSE @]
  /\ UNCHANGED serviceVars
  /\ UNCHANGED << userQuery, retrieval, queryEnhancement, response, evalRet,
                  aggregationPrompt, aggRet >>
  /\ UNCHANGED judgeVars

\* generateResponse that calls the primary model again after a failure
DoGenerateRetries(gen) ==
  /\ UNCHANGED libVars
  /\ pc = "generate"
  /\ hist.calls.draft < 2
  /\ LET c == generateResponse(gen)
     IN IF c.threw
          THEN /\ response' = response
               /\ pc' = pc
               /\ result' = result
          ELSE /\ response' = c.value
               /\ pc' = "evaluate_start"
               /\ result' = result
  /\ hist' = IF gen.threw
               THEN [hist EXCEPT !.calls.draft = @ + 1]
               ELSE [hist EXCEPT !.draft = "ok", !.calls.draft = @ + 1]
  /\ UNCHANGED serviceVars
  /\ UNCHANGED << userQuery, retrieval, queryEnhancement, webResults, draftPrompt,
                  evalRet, aggregationPrompt, aggRet >>
  /\ UNCHANGED judgeVars

\* step 4: generateResponse, the primary model answering `gen`
DoGenerate(gen) ==
  /\ UNCHANGED libVars
  /\ pc = "generate"
  /\ LET c == generateResponse(gen)
     IN IF c.threw
          THEN /\ Caught(c.message)
               /\ response' = response
          ELSE /\ response' = c.value
               /\ pc' = "evaluate_start"
               /\ result' = result
  /\ hist' = IF gen.threw
               THEN [hist EXCEPT !.draft = "fail", !.thrown = gen.message,
                                 !.calls.draft = @ + 1]
               ELSE [hist EXCEPT !.draft = "ok", !.calls.draft = @ + 1]
  /\ UNCHANGED serviceVars
  /\ UNCHANGED << userQuery, retrieval, queryEnhancement, webResults, draftPrompt,
                  evalRet, aggregationPrompt, aggRet >>
  /\ UNCHANGED judgeVars

\* evaluateResponse entered while the draft is still being generated
EvaluateStartBeforeDraft ==
  /\ UNCHANGED libVars
  /\ pc \in {"generate", "evaluate_start"}
  /\ judgeCall' = [j \in Judges |->
                     IF j \in MapStarts(evaluationModels) THEN Pending ELSE Idle]
  /\ promise' = [j \in Judges |->
                   IF j \in MapStarts(evaluationModels) THEN Pending ELSE Idle]
  /\ pc' = "evaluate"
  /\ hist' = [hist EXCEPT !.calls.judge =
                [j \in Judges |-> IF j \in MapStarts(evaluationModels)
                                    THEN @[j] + 1 ELSE @[j]]]
  /\ UNCHANGED serviceVars
  /\ UNCHANGED << userQuery, retrieval, queryEnhancement, webResults, draftPrompt,
                  response, allValues, firstRejection, evalRet,
                  aggregationPrompt, aggRet, result >>

\* step 5: evaluateResponse up to its await on Promise.all
EvaluateStart ==
  /\ UNCHANGED libVars
  /\ pc = "evaluate_start"
  /\ judgeCall' = [j \in Judges |->
                     IF j \in MapStarts(evaluationModels) THEN Pending ELSE Idle]
  /\ promise' = [j \in Judges |->
                   IF j \in MapStarts(evaluationModels) THEN Pending ELSE Idle]
  /\ pc' = "evaluate"
  /\ hist' = [hist EXCEPT !.calls.judge =
                [j \in Judges |-> IF j \in MapStarts(evaluationModels)
                                    THEN @[j] + 1 ELSE @[j]]]
  /\ UNCHANGED serviceVars
  /\ UNCHANGED << userQuery, retrieval, queryEnhancement, webResults, draftPrompt,
                  response, allValues, firstRejection, evalRet,
                  aggregationPrompt, aggRet, result >>

\* the generate call of judge j settles with `gen`; its callback finishes
JudgeSettle(j, gen) ==
  /\ UNCHANGED libVars
  /\ judgeCall[j].state = "pending"
  /\ LET completion == JudgeCallback(evaluationModels[j], gen)
         settledBefore ==
           Cardinality({k \in Judges : promise[k].state \in {"fulfilled", "rejected"}})
     IN /\ promise' = [promise EXCEPT ![j] = Settled(completion)]
        /\ allValues' = IF completion.threw THEN allValues
                        ELSE [allValues EXCEPT ![PromiseAllSlot(j, settledBefore)] =
                                                 completion.value]
        /\ firstRejection' = IF completion.threw /\ firstRejection.state # "rejected"
                               THEN Settled(completion) ELSE firstRejection
  /\ judgeCall' = [judgeCall EXCEPT ![j] =
                     IF gen.threw THEN [state |-> "failed", message |-> gen.message]
                     ELSE [state |-> "ok", result |-> gen.value]]
  /\ hist' = [hist EXCEPT !.outOfOrder =
                @ \/ \E k \in Judges : k < j /\ judgeCall[k].state = "pending"]
  /\ UNCHANGED serviceVars
  /\ UNCHANGED << pc, userQuery, retrieval, queryEnhancement, webResults,
                  draftPrompt, response, evalRet, aggregationPrompt, aggRet,
                  result >>

\* Promise.all has settled: evaluateResponse returns (or throws), and
\* aggregateAndFinalize runs up to its generate call
EvaluateJoin ==
  /\ UNCHANGED libVars
  /\ pc = "evaluate"
  /\ LET all == PromiseAll(promise, allValues, firstRejection)
     IN /\ all.state # "pending"
        /\ IF all.state = "rejected"
             THEN /\ evalRet' = Throw(all.message)
                  /\ Caught(all.message)
                  /\ aggregationPrompt' = aggregationPrompt
             ELSE /\ evalRet' = Return(all.value)
                  /\ aggregationPrompt' =
                       AggregationPrompt(userQuery, response, all.value,
                                         retrieval.sources \o <<"Web Search">>)
                  /\ pc' = "aggregate"
                  /\ result' = result
  /\ UNCHANGED serviceVars
  /\ UNCHANGED << userQuery, retrieval, queryEnhancement, webResults, draftPrompt,
                  response, aggRet, hist >>
  /\ UNCHANGED judgeVars

\* step 6: the aggregator model answers `gen`; process() returns
DoAggregate(gen) ==
  /\ UNCHANGED libVars
  /\ pc = "aggregate"
  /\ aggRet' = aggregateAndFinalize(gen)
  /\ IF aggRet'.threw
       THEN Caught(aggRet'.message)
       ELSE /\ result' = Return([success |-> TRUE,
                                 userQuery |-> userQuery,
                                 documentContext |-> retrieval,
                                 queryEnhancement |-> queryEnhancement,
                                 webSearchResults |-> webResults,
                                 initialResponse |-> response,
                                 evaluations |-> evalRet.value,
                                 finalResult |-> aggRet'.value])
            /\ pc' = "done"
  /\ hist' = IF gen.threw
               THEN [hist EXCEPT !.aggregate = "fail", !.thrown = gen.message,
                                 !.calls.aggregate = @ + 1]
               ELSE [hist EXCEPT !.aggregate = "ok", !.calls.aggregate = @ + 1]
  /\ UNCHANGED serviceVars
  /\ UNCHANGED << userQuery, retrieval, queryEnhancement, webResults, draftPrompt,
                  response, evalRet, aggregationPrompt >>
  /\ UNCHANGED judgeVars

\* the caller has the result; the agent is free for the next query
ProcessReturn ==
  /\ UNCHANGED libVars
  /\ pc = "done"
  /\ pc' = "idle"
  /\ userQuery' = <<>>
  /\ retrieval' = NoRetrieval
  /\ queryEnhancement' = NoEnhancement
  /\ webResults' = NoWebResults
  /\ draftPrompt' = <<>>
  /\ response' = <<>>
  /\ judgeCall' = [j \in Judges |-> Idle]
  /\ promise' = [j \in Judges |-> Idle]
  /\ allValues' = [j \in Judges |-> Unset]
  /\ firstRejection' = Idle
  /\ evalRet' = Unset
  /\ aggregationPrompt' = NoPrompt
  /\ aggRet' = Unset
  /\ result' = Unset
  /\ hist' = NoHist
  /\ UNCHANGED serviceVars

Next ==
  \/ IndexStart
  \/ \E up \in EmbedAnswers : IndexStep(up)
  \/ \E q \in Queries : ProcessStart(q)
  \/ \E up \in EmbedAnswers : DoRetrieve(up)
  \/ \E gen \in EnhanceGenAnswers : DoEnhance(gen)
  \/ \E backend \in BackendAnswers : DoSearch(backend)
  \/ \E gen \in DraftAnswers : DoGenerate(gen)
  \/ EvaluateStart
  \/ \E j \in Judges, gen \in JudgeAnswers : JudgeSettle(j, gen)
  \/ EvaluateJoin
  \/ \E gen \in GenAnswers : DoAggregate(gen)
  \/ ProcessReturn

Spec == Init /\ [][Next]_vars

\* the same agent constructed with an evaluatorCount in its configuration
SpecConfigured == InitConfigured /\ [][Next]_vars

\* ------------------------------------------- RAGRetriever, called directly
\* The retriever as a component: its methods are called by any caller, a
\* retrieve also between two iterations of a running indexDocuments (both are
\* async; the loop yields at each await). retrieve itself is taken as one
\* step: the caller does not mutate the index while it is awaited.
MaxLibDocs == 2

TopKs == {-1, 0, 1, 2}

\* clear(): the chunk embeddings and the cache of the embedding service are
\* emptied; the DocumentManager is not touched
clear(index, cache, docs) ==
  [index |-> EmptyMap, cache |-> EmptyMap, documents |-> docs]

InitLib ==
  /\ documents \in {SubSeq(Corpus, 1, n) : n \in 0..MaxLibDocs}
  /\ tavilyApiKey = FALSE
  /\ embeddingCache = EmptyMap
  /\ chunkEmbeddings = EmptyMap
  /\ indexPc = "new"
  /\ indexI = 1
  /\ indexRet = Unset
  /\ embedFailed = {}
  /\ LocalsInit
  /\ call = NoCall
  /\ js = JsNew
  /\ firstVector = EmptyMap
  /\ inflight = <<>>
  /\ server = NoServer
  /\ chunker = NoChunker

\* retrieve(query, topK) and, on its result, formatContext; indexPc tells
\* where indexDocuments stands when the call is made
Retrieve(q, k, up) ==
  /\ UNCHANGED pureVars
  /\ LET r == retrieve(chunkEmbeddings, embeddingCache, documents, q, k, up)
     IN /\ embeddingCache' = r.cache
        /\ call' = [NoCall EXCEPT
                      !.op = "retrieve", !.phase = indexPc, !.query = q, !.topK = k,
                      !.context = IF r.ret.threw THEN <<>> ELSE formatContext(r.ret.value),
                      !.called = r.called, !.ret = r.ret]
  /\ UNCHANGED << documents, tavilyApiKey, chunkEmbeddings, indexPc, indexI,
                  indexRet, embedFailed, js >>
  /\ UNCHANGED processVars

\* clear() on a retriever whose indexDocuments has returned; indexDocuments
\* can then be run again
Clear ==
  /\ UNCHANGED pureVars
  /\ indexPc = "ready"
  /\ LET c == clear(chunkEmbeddings, embeddingCache, documents)
     IN /\ chunkEmbeddings' = c.index
        /\ embeddingCache' = c.cache
        /\ documents' = c.documents
  /\ indexPc' = "new"
  /\ indexI' = 1
  /\ indexRet' = Unset
  /\ embedFailed' = {}
  /\ call' = [NoCall EXCEPT !.op = "clear", !.phase = indexPc, !.ret = Return(NoValue)]
  /\ UNCHANGED << tavilyApiKey, js >>
  /\ UNCHANGED processVars

\* the answers the embedding provider can give to a retrieve: it is asked
\* only when retrieve gets as far as an uncached query
AnswersFor(asked) ==
  IF asked THEN EmbedAnswers ELSE {CHOOSE up \in EmbedAnswers : up.threw}

NextLib ==
  \/ IndexStart
  \/ \E up \in EmbedAnswers : IndexStep(up)
  \/ \E q \in Queries, k \in TopKs :
       \E up \in AnswersFor(DOMAIN chunkEmbeddings # {} /\ q \notin DOMAIN embeddingCache) :
         Retrieve(q, k, up)
  \/ Clear

SpecLib == InitLib /\ [][NextLib]_vars

\* a.txt after an edit: the same name, another text in its chunk
EditedCorpus == << [name |-> "a.txt", chunks |-> << <<"t2">> >>] >>

\* what loadAllDocuments can find in the documents directory
DocumentSets == {SubSeq(Corpus, 1, n) : n \in 0..MaxLibDocs} \cup {EditedCorpus}

\* loadAllDocuments() run again after the directory has changed:
\* this.documents is replaced, the retriever is not touched, and
\* indexDocuments can be run again
Reload(docs) ==
  /\ UNCHANGED pureVars
  /\ indexPc = "ready"
  /\ docs # documents
  /\ documents' = docs
  /\ indexPc' = "new"
  /\ indexI' = 1
  /\ indexRet' = Unset
  /\ embedFailed' = {}
  /\ call' = [NoCall EXCEPT !.op = "loadAllDocuments", !.phase = indexPc,
                            !.ret = Return(NoValue)]
  /\ UNCHANGED << tavilyApiKey, embeddingCache, chunkEmbeddings, js >>
  /\ UNCHANGED processVars

NextReindex ==
  \/ IndexStart
  \/ \E up \in EmbedAnswers : IndexStep(up)
  \/ \E docs \in DocumentSets : Reload(docs)
  \/ Clear

\* the retriever of an agent whose initialize() is run again and again
SpecReindex == InitLib /\ [][NextReindex]_vars

\* ------------------------------- the CommonJS RAGRetriever, called directly
\* an entry of the array generateEmbeddings returns: a vector, or null
JsNull == [isNull |-> TRUE]
JsVec(v) == [isNull |-> FALSE, values |-> v]

\* cosineSimilarity (CommonJS): 0 for a null operand, for two lengths that
\* differ and for a zero denominator
Js_cosineSimilarity(embedding1, embedding2) ==
  IF embedding1.isNull \/ embedding2.isNull THEN 0
  ELSE IF Len(embedding1.values) # Len(embedding2.values) THEN 0
  ELSE LET dotProduct == Dot(embedding1.values, embedding2.values)
           denominator == Sqrt(Dot(embedding1.values, embedding1.values))
                          * Sqrt(Dot(embedding2.values, embedding2.values))
       IN IF denominator = 0 THEN 0 ELSE (1000 * dotProduct) \div denominator

\* indexedChunks: each chunk with the entry generateEmbeddings gave for it
Js_IndexedChunks(chunks, embeddings) ==
  [i \in 1..Len(chunks) |->
     [text |-> chunks[i].text, source |-> chunks[i].source,
      chunkIndex |-> chunks[i].chunkIndex, embedding |-> embeddings[i]]]

\* sort((a, b) => b.similarity - a.similarity): stable, descending
RECURSIVE Js_InsertBySimilarity(_, _)
Js_InsertBySimilarity(sorted, x) ==
  IF sorted = <<>> THEN <<x>>
  ELSE IF x.similarity - Head(sorted).similarity > 0
         THEN <<x>> \o sorted
         ELSE <<Head(sorted)>> \o Js_InsertBySimilarity(Tail(sorted), x)

RECURSIVE Js_SortBySimilarity(_)
Js_SortBySimilarity(t) ==
  IF t = <<>> THEN <<>>
  ELSE Js_InsertBySimilarity(Js_SortBySimilarity(SubSeq(t, 1, Len(t) - 1)), t[Len(t)])

\* retrieve(query, topK) of the CommonJS retriever
Js_retrieve(isIndexed, indexedChunks, cache, query, k, up) ==
  IF ~isIndexed
    THEN [ret |-> Throw(NotIndexed), cache |-> cache, called |-> FALSE]
    ELSE LET q == generateEmbedding(cache, query, up)
         IN IF q.ret.threw THEN q
            ELSE LET scoredChunks ==
                       [i \in 1..Len(indexedChunks) |->
                          [text |-> indexedChunks[i].text,
                           source |-> indexedChunks[i].source,
                           chunkIndex |-> indexedChunks[i].chunkIndex,
                           similarity |-> Js_cosineSimilarity(JsVec(q.ret.value),
                                                              indexedChunks[i].embedding)]]
                 IN [ret |-> Return(SliceTo(Js_SortBySimilarity(scoredChunks), k)),
                     cache |-> q.cache, called |-> q.called]

InitJs ==
  /\ documents \in {SubSeq(Corpus, 1, n) : n \in 0..MaxLibDocs}
  /\ tavilyApiKey = FALSE
  /\ embeddingCache = EmptyMap
  /\ chunkEmbeddings = EmptyMap
  /\ indexPc = "new"
  /\ indexI = 1
  /\ indexRet = Unset
  /\ embedFailed = {}
  /\ LocalsInit
  /\ call = NoCall
  /\ js = JsNew
  /\ firstVector = EmptyMap
  /\ inflight = <<>>
  /\ server = NoServer
  /\ chunker = NoChunker

tsVars == << documents, tavilyApiKey, embeddingCache, chunkEmbeddings, indexPc,
             indexI, indexRet, embedFailed >>

\* indexDocuments up to generateEmbeddings: the files of the documents folder
\* (documents) are loaded; with no chunk it returns before isIndexed is set
JsIndexStart ==
  /\ UNCHANGED pureVars
  /\ js.pc = "new"
  /\ js' = IF Len(getAllChunks(documents)) = 0
             THEN [js EXCEPT !.documents = documents, !.pc = "returned"]
             ELSE [js EXCEPT !.documents = documents, !.pc = "indexing",
                             !.embeddings = <<>>]
  /\ UNCHANGED << tsVars, call >>
  /\ UNCHANGED processVars

\* one iteration of generateEmbeddings; after the last one indexDocuments
\* stores the chunks with their embeddings and sets isIndexed
JsIndexStep(up) ==
  /\ UNCHANGED pureVars
  /\ js.pc = "indexing"
  /\ LET chunks == getAllChunks(js.documents)
         e == generateEmbedding(js.cache, chunks[Len(js.embeddings) + 1].text, up)
         embeddings == Append(js.embeddings,
                              IF e.ret.threw THEN JsNull ELSE JsVec(e.ret.value))
     IN js' = IF Len(embeddings) = Len(chunks)
                THEN [js EXCEPT !.cache = e.cache, !.embeddings = <<>>,
                                !.indexedChunks = Js_IndexedChunks(chunks, embeddings),
                                !.isIndexed = TRUE, !.pc = "returned"]
                ELSE [js EXCEPT !.cache = e.cache, !.embeddings = embeddings]
  /\ UNCHANGED << tsVars, call >>
  /\ UNCHANGED processVars

\* retrieve(query, topK), called whatever the position of indexDocuments
JsRetrieve(q, k, up) ==
  /\ UNCHANGED pureVars
  /\ LET r == Js_retrieve(js.isIndexed, js.indexedChunks, js.cache, q, k, up)
     IN /\ js' = [js EXCEPT !.cache = r.cache]
        /\ call' = [NoCall EXCEPT
                      !.op = "retrieve", !.phase = js.pc, !.query = q, !.topK = k,
                      !.called = r.called, !.ret = r.ret]
  /\ UNCHANGED tsVars
  /\ UNCHANGED processVars

\* clear() after indexDocuments has returned
JsClear ==
  /\ UNCHANGED pureVars
  /\ js.pc = "returned"
  /\ js' = JsNew
  /\ call' = [NoCall EXCEPT !.op = "clear", !.phase = js.pc, !.ret = Return(NoValue)]
  /\ UNCHANGED tsVars
  /\ UNCHANGED processVars

NextJs ==
  \/ JsIndexStart
  \/ \E up \in EmbedAnswers : JsIndexStep(up)
  \/ \E q \in Queries, k \in TopKs :
       \E up \in AnswersFor(js.isIndexed /\ q \notin DOMAIN js.cache) :
         JsRetrieve(q, k, up)
  \/ JsClear

SpecJs == InitJs /\ [][NextJs]_vars

\* --------------------------- query enhancement and search, called directly
\* the document contexts a caller hands to an enhancement
Contexts == {<<>>, <<"Relevant document context:\n\n", "t1">>}

JsUnavailable == <<"Web search unavailable.">>

NotLiveTag == <<"[Based on AI Training Data - Not Live Web Search]\n\n">>

\* WebSearchService.fallbackSearch (CommonJS); gen is the completion of
\* neurolink.generate
Js_fallbackSearch(query, maxResults, gen) ==
  IF gen.threw
    THEN Return([query |-> query, results |-> JsUnavailable,
                 fallback |-> FALSE, error |-> TRUE])
    ELSE Return([query |-> query, results |-> NotLiveTag \o ResultText(gen.value),
                 fallback |-> TRUE, error |-> FALSE])

\* the text WebSearchService.search makes of the backend's JSON
Js_formattedResults(data) ==
  (IF data.answer # <<>>
     THEN <<"**AI Summary:**\n">> \o data.answer \o <<"\n\n">> ELSE <<>>)
  \o (IF Len(data.results) > 0
        THEN <<"**Search Results:**\n\n">> \o FormatHits(data.results, 1) ELSE <<>>)

\* WebSearchService.search (CommonJS): without a key, and when the backend
\* fails, it answers through fallbackSearch
Js_search(apiKey, query, maxResults, backend, gen) ==
  IF ~apiKey THEN Js_fallbackSearch(query, maxResults, gen)
  ELSE IF backend.kind \in {"throw", "status"}
    THEN Js_fallbackSearch(query, maxResults, gen)
    ELSE Return([query |-> query, results |-> Js_formattedResults(backend),
                 fallback |-> FALSE, error |-> FALSE])

\* the prompt the CommonJS generateResponse builds (fixed instruction text
\* abridged): an empty context or result text is replaced by a notice
Js_DraftPrompt(query, documentContext, webSearchResults) ==
  <<"Answer the user's query PRIMARILY using the uploaded document context.",
    "**User Query:**\n">>
  \o query
  \o <<"**PRIMARY SOURCE - Uploaded Document Context:**\n">>
  \o (IF documentContext # <<>> THEN documentContext
      ELSE <<"No document context available.">>)
  \o <<"**SUPPLEMENTARY SOURCE - Web Search Results (use only if documents don't have the information):**\n">>
  \o (IF webSearchResults.results # <<>> THEN webSearchResults.results
      ELSE <<"No web search results available.">>)
  \o <<"**Your Response:**">>

\* whether Js_search asks the generative model
Js_searchGenerates(apiKey, backend) ==
  ~apiKey \/ backend.kind \in {"throw", "status"}

\* WebSearch.enhancedSearch(originalQuery, documentContext, maxResults)
WebSearch_enhancedSearch(apiKey, originalQuery, documentContext, maxResults, gen, backend) ==
  LET enhancedQuery == WebSearch_enhanceQuery(originalQuery, documentContext, gen)
  IN IF enhancedQuery.threw
       THEN [enhanced |-> <<>>, ret |-> enhancedQuery]
       ELSE [enhanced |-> enhancedQuery.value,
             ret |-> WebSearch_search(apiKey, enhancedQuery.value, maxResults, backend)]

MaxResults == 5

\* how the search backend answered a search: it is asked only with a key
BackendSaid(apiKey, backend) == IF apiKey THEN backend.kind ELSE NoValue

InitWeb ==
  /\ documents = <<>>
  /\ tavilyApiKey \in BOOLEAN
  /\ embeddingCache = EmptyMap
  /\ chunkEmbeddings = EmptyMap
  /\ indexPc = "new"
  /\ indexI = 1
  /\ indexRet = Unset
  /\ embedFailed = {}
  /\ LocalsInit
  /\ call = NoCall
  /\ js = JsNew
  /\ firstVector = EmptyMap
  /\ inflight = <<>>
  /\ server = NoServer
  /\ chunker = NoChunker

\* RAGMultiModelAgent.enhanceQuery
AgentEnhanceQuery(q, ctx, gen) ==
  /\ UNCHANGED pureVars
  /\ LET c == enhanceQuery(q, ctx, gen)
     IN call' = [NoCall EXCEPT
                   !.op = "agent.enhanceQuery", !.query = q, !.context = ctx,
                   !.called = EnhanceCalls(ctx),
                   !.enhanced = IF c.threw THEN <<>> ELSE c.value.enhanced,
                   !.ret = c]
  /\ UNCHANGED << tsVars, js >>
  /\ UNCHANGED processVars

\* WebSearch.enhanceQuery: generateContent is called whatever the context
WebEnhanceQuery(q, ctx, gen) ==
  /\ UNCHANGED pureVars
  /\ LET c == WebSearch_enhanceQuery(q, ctx, gen)
     IN call' = [NoCall EXCEPT
                   !.op = "enhanceQuery", !.query = q, !.context = ctx,
                   !.called = TRUE,
                   !.enhanced = IF c.threw THEN <<>> ELSE c.value,
                   !.ret = c]
  /\ UNCHANGED << tsVars, js >>
  /\ UNCHANGED processVars

\* WebSearch.enhancedSearch
WebEnhancedSearch(q, ctx, gen, backend) ==
  /\ UNCHANGED pureVars
  /\ LET c == WebSearch_enhancedSearch(tavilyApiKey, q, ctx, MaxResults, gen, backend)
     IN call' = [NoCall EXCEPT
                   !.op = "enhancedSearch", !.query = q, !.context = ctx,
                   !.called = TRUE, !.enhanced = c.enhanced,
                   !.answer = IF c.enhanced = <<>> /\ c.ret.threw THEN NoValue
                              ELSE BackendSaid(tavilyApiKey, backend),
                   !.ret = c.ret]
  /\ UNCHANGED << tsVars, js >>
  /\ UNCHANGED processVars

\* WebSearch.search
WebSearchCall(q, backend) ==
  /\ UNCHANGED pureVars
  /\ call' = [NoCall EXCEPT
                !.op = "search", !.query = q,
                !.answer = BackendSaid(tavilyApiKey, backend),
                !.ret = WebSearch_search(tavilyApiKey, q, MaxResults, backend)]
  /\ UNCHANGED << tsVars, js >>
  /\ UNCHANGED processVars

\* WebSearchService.search (CommonJS)
JsWebSearch(q, backend, gen) ==
  /\ UNCHANGED pureVars
  /\ call' = [NoCall EXCEPT
                !.op = "js.search", !.query = q,
                !.answer = BackendSaid(tavilyApiKey, backend),
                !.called = Js_searchGenerates(tavilyApiKey, backend),
                !.ret = Js_search(tavilyApiKey, q, 3, backend, gen)]
  /\ UNCHANGED << tsVars, js >>
  /\ UNCHANGED processVars

NextWeb ==
  \/ \E q \in Queries, ctx \in Contexts, gen \in EnhanceGenAnswers :
       AgentEnhanceQuery(q, ctx, gen)
  \/ \E q \in Queries, ctx \in Contexts, gen \in EnhanceGenAnswers :
       WebEnhanceQuery(q, ctx, gen)
  \/ \E q \in Queries, ctx \in Contexts, gen \in EnhanceGenAnswers,
        backend \in BackendAnswers : WebEnhancedSearch(q, ctx, gen, backend)
  \/ \E q \in Queries, backend \in BackendAnswers : WebSearchCall(q, backend)
  \/ \E q \in Queries, backend \in BackendAnswers, gen \in GenAnswers :
       JsWebSearch(q, backend, gen)

SpecWeb == InitWeb /\ [][NextWeb]_vars

\* ------------------------------------- EmbeddingService, called directly
Texts == {<<"t1">>, <<"t2">>}

MaxBatch == 2

\* the batches a caller may pass, and per item the answer the embedding
\* provider gives if it is asked for that item
Batches == UNION {[1..n -> Texts] : n \in 0..MaxBatch}

\* answers of the embedding provider to a direct caller: two vectors, or
\* the failure
ProviderAnswers == {Return(<<1, 0>>), Return(<<3, 4>>)} \cup {Throw(m) : m \in EmbedErrors}

\* generateBatchEmbeddings (TypeScript): a failed item is caught and an
\* empty array takes its place
RECURSIVE generateBatchEmbeddings(_, _, _)
generateBatchEmbeddings(cache, texts, ups) ==
  IF texts = <<>> THEN [ret |-> Return(<<>>), cache |-> cache]
  ELSE LET e == generateEmbedding(cache, Head(texts), Head(ups))
           rest == generateBatchEmbeddings(e.cache, Tail(texts), Tail(ups))
       IN [ret |-> Return(<< IF e.ret.threw THEN JsVec(<<>>) ELSE JsVec(e.ret.value) >>
                          \o rest.ret.value),
           cache |-> rest.cache]

\* the TypeError of reading .length of null
NullLength == "Cannot read properties of null (reading 'length')"

\* cosineSimilarity (TypeScript) on any two values a caller can pass at run
\* time: null has no length
Ts_cosineSimilarity(embeddingA, embeddingB) ==
  IF embeddingA.isNull \/ embeddingB.isNull THEN Throw(NullLength)
  ELSE cosineSimilarity(embeddingA.values, embeddingB.values)

\* the operands a caller may pass to cosineSimilarity
CosineArgs == {JsNull, JsVec(<<>>), JsVec(<<0, 0>>), JsVec(<<1, 0>>),
               JsVec(<<3, 4>>), JsVec(<<1>>)}

InitEmbed ==
  /\ documents = <<>>
  /\ tavilyApiKey = FALSE
  /\ embeddingCache = EmptyMap
  /\ chunkEmbeddings = EmptyMap
  /\ indexPc = "new"
  /\ indexI = 1
  /\ indexRet = Unset
  /\ embedFailed = {}
  /\ LocalsInit
  /\ call = NoCall
  /\ js = JsNew
  /\ firstVector = EmptyMap
  /\ inflight = <<>>
  /\ server = NoServer
  /\ chunker = NoChunker

indexVars == << documents, tavilyApiKey, chunkEmbeddings, indexPc, indexI,
                indexRet, embedFailed >>

\* generateEmbedding(t), the provider answering `up` if asked
Embed(t, up) ==
  /\ LET e == generateEmbedding(embeddingCache, t, up)
     IN /\ embeddingCache' = e.cache
        /\ call' = [NoCall EXCEPT
                      !.op = "embed", !.query = t,
                      !.phase = IF t \in DOMAIN firstVector THEN "repeat" ELSE "first",
                      !.called = e.called,
                      !.answer = IF up.threw THEN "fail" ELSE "ok",
                      !.before = embeddingCache, !.ret = e.ret]
        /\ firstVector' = IF ~e.ret.threw /\ t \notin DOMAIN firstVector
                            THEN MapSet(firstVector, t, e.ret.value)
                            ELSE firstVector
  /\ UNCHANGED << indexVars, js, inflight, chunker, server >>
  /\ UNCHANGED processVars

\* clearCache()
ClearCache ==
  /\ embeddingCache' = EmptyMap
  /\ firstVector' = EmptyMap
  /\ call' = [NoCall EXCEPT !.op = "clearCache", !.before = embeddingCache,
                            !.ret = Return(NoValue)]
  /\ UNCHANGED << indexVars, js, inflight, chunker, server >>
  /\ UNCHANGED processVars

\* generateBatchEmbeddings(texts) (TypeScript)
EmbedBatch(texts, ups) ==
  /\ LET b == generateBatchEmbeddings(embeddingCache, texts, ups)
     IN /\ embeddingCache' = b.cache
        /\ call' = [NoCall EXCEPT
                      !.op = "embedBatch", !.query = texts, !.answer = ups,
                      !.before = embeddingCache, !.ret = b.ret]
        /\ firstVector' = [t \in (DOMAIN firstVector) \cup (DOMAIN b.cache) |->
                             IF t \in DOMAIN firstVector THEN firstVector[t]
                             ELSE b.cache[t]]
  /\ UNCHANGED << indexVars, js, inflight, chunker, server >>
  /\ UNCHANGED processVars

\* calls of generateEmbedding that may await the provider at one time
MaxInflight == 2

\* the i-th element of a sequence removed
RemoveAt(s, i) == SubSeq(s, 1, i - 1) \o SubSeq(s, i + 1, Len(s))

\* generateEmbedding(t) up to its await: the text is not in the cache and
\* the provider is asked; other calls run before the answer arrives
EmbedBegin(t) ==
  /\ t \notin DOMAIN embeddingCache
  /\ Len(inflight) < MaxInflight
  /\ inflight' = Append(inflight, t)
  /\ UNCHANGED << embeddingCache, firstVector, call >>
  /\ UNCHANGED << indexVars, js, chunker, server >>
  /\ UNCHANGED processVars

\* generateEmbedding after its await: the provider answers call i with
\* `up`; a vector is stored without looking at the cache again
EmbedEnd(i, up) ==
  /\ i <= Len(inflight)
  /\ LET t == inflight[i]
     IN /\ embeddingCache' = IF up.threw THEN embeddingCache
                              ELSE MapSet(embeddingCache, t, up.value)
        /\ firstVector' = IF ~up.threw /\ t \notin DOMAIN firstVector
                            THEN MapSet(firstVector, t, up.value)
                            ELSE firstVector
        /\ call' = [NoCall EXCEPT
                      !.op = "embed", !.query = t, !.phase = "overlap",
                      !.called = TRUE,
                      !.answer = IF up.threw THEN "fail" ELSE "ok",
                      !.before = embeddingCache,
                      !.ret = IF up.threw THEN up ELSE Return(up.value)]
  /\ inflight' = RemoveAt(inflight, i)
  /\ UNCHANGED << indexVars, js, chunker, server >>
  /\ UNCHANGED processVars

NextEmbed ==
  \/ \E t \in Texts, up \in ProviderAnswers : Embed(t, up)
  \/ \E t \in Texts : EmbedBegin(t)
  \/ \E i \in 1..MaxInflight, up \in ProviderAnswers : EmbedEnd(i, up)
  \/ ClearCache
  \/ \E texts \in Batches : \E ups \in [1..Len(texts) -> ProviderAnswers] :
       EmbedBatch(texts, ups)

SpecEmbed == InitEmbed /\ [][NextEmbed]_vars

\* ------------------------------------------------- cosineSimilarity alone
\* the two operands are drawn, then one of the two implementations is applied
InitCosine ==
  /\ documents = <<>>
  /\ tavilyApiKey = FALSE
  /\ embeddingCache = EmptyMap
  /\ chunkEmbeddings = EmptyMap
  /\ indexPc = "new"
  /\ indexI = 1
  /\ indexRet = Unset
  /\ embedFailed = {}
  /\ LocalsInit
  /\ call \in {[NoCall EXCEPT !.query = <<a, b>>] : a \in CosineArgs, b \in CosineArgs}
  /\ js = JsNew
  /\ firstVector = EmptyMap
  /\ inflight = <<>>
  /\ server = NoServer
  /\ chunker = NoChunker

\* cosineSimilarity(a, b) (TypeScript)
Cosine ==
  /\ call.op = "none"
  /\ call' = [call EXCEPT !.op = "cosineSimilarity",
                          !.ret = Ts_cosineSimilarity(call.query[1], call.query[2])]
  /\ UNCHANGED << indexVars, embeddingCache, js, chunker, firstVector, inflight, server >>
  /\ UNCHANGED processVars

\* cosineSimilarity(a, b) (CommonJS)
JsCosine ==
  /\ call.op = "none"
  /\ call' = [call EXCEPT !.op = "js.cosineSimilarity",
                          !.ret = Return(Js_cosineSimilarity(call.query[1], call.query[2]))]
  /\ UNCHANGED << indexVars, embeddingCache, js, chunker, firstVector, inflight, server >>
  /\ UNCHANGED processVars

NextCosine ==
  \/ Cosine
  \/ JsCosine

SpecCosine == InitCosine /\ [][NextCosine]_vars

\* ------------------------------------------ DocumentManager.chunkDocument
MaxTextLen == 6

MaxWindow == 3

\* the characters of a content: two letters and the blank
ChunkTokens == {"a", "b", " "}

Contents == UNION {[1..n -> ChunkTokens] : n \in 0..MaxTextLen}

ChunkSizes == 1..MaxWindow

Overlaps == 0..MaxWindow

\* iterations of the loop the model follows: one more than a terminating
\* call can need, the words of a content being at most its length plus one
MaxChunkSteps == MaxTextLen + 2

\* index of the first whitespace of s from position p on, or Len(s) + 1
RECURSIVE FirstSpace(_, _)
FirstSpace(s, p) ==
  IF p > Len(s) \/ IsSpace(s[p]) THEN p ELSE FirstSpace(s, p + 1)

\* index of the first non-whitespace of s from position p on, or Len(s) + 1
RECURSIVE FirstNonSpace(_, _)
FirstNonSpace(s, p) ==
  IF p > Len(s) \/ ~IsSpace(s[p]) THEN p ELSE FirstNonSpace(s, p + 1)

\* content.split(/\s+/): the pieces between the runs of whitespace; a
\* content that begins or ends with whitespace gives an empty first or last
\* piece, and the empty content gives one empty piece
RECURSIVE Split(_)
Split(s) ==
  LET sp == FirstSpace(s, 1)
  IN IF sp > Len(s) THEN << s >>
     ELSE << SubSeq(s, 1, sp - 1) >>
          \o Split(SubSeq(s, FirstNonSpace(s, sp), Len(s)))

\* slice without its end: everything from start on
SliceToEnd(arr, start, end) ==
  LET len == Len(arr)
      from == IF start < 0 THEN (IF len + start < 0 THEN 0 ELSE len + start)
              ELSE (IF start > len THEN len ELSE start)
  IN SubSeq(arr, from + 1, len)

\* Array.prototype.slice(start, end): a negative index counts from the end,
\* both are clamped to the array
Slice(arr, start, end) ==
  LET len == Len(arr)
      from == IF start < 0 THEN (IF len + start < 0 THEN 0 ELSE len + start)
              ELSE (IF start > len THEN len ELSE start)
      to == IF end < 0 THEN (IF len + end < 0 THEN 0 ELSE len + end)
            ELSE (IF end > len THEN len ELSE end)
  IN SubSeq(arr, from + 1, to)

\* the loop body without its test: the trimmed window is always pushed
PushWindowNoTest(words, chunkSize, i, chunks) ==
  LET chunk == Join(Slice(words, i, i + chunkSize), << " " >>)
  IN Append(chunks, Trim(chunk))

\* the loop body: the window at i joined by blanks, pushed trimmed unless
\* it is blank
PushWindow(words, chunkSize, i, chunks) ==
  LET chunk == Join(Slice(words, i, i + chunkSize), << " " >>)
  IN IF Trim(chunk) # <<>> THEN Append(chunks, Trim(chunk)) ELSE chunks

\* the loop increment with the overlap left out
NextStartNoOverlap(i, chunkSize, overlap) == i + chunkSize

\* the loop increment as a step of one word
NextStartByOne(i, chunkSize, overlap) == i + 1

\* the loop increment i += chunkSize - overlap
NextStart(i, chunkSize, overlap) == i + chunkSize - overlap

\* the loop of chunkDocument from index i on, for an increment above zero
RECURSIVE ChunkLoop(_, _, _, _, _)
ChunkLoop(words, chunkSize, overlap, i, chunks) ==
  IF ~(i < Len(words)) THEN chunks
  ELSE ChunkLoop(words, chunkSize, overlap, NextStart(i, chunkSize, overlap),
                 PushWindow(words, chunkSize, i, chunks))

\* chunkDocument(content, chunkSize, overlap) where it returns
chunkDocument(content, chunkSize, overlap) ==
  ChunkLoop(Split(content), chunkSize, overlap, 0, <<>>)

InitChunk ==
  /\ documents = <<>>
  /\ tavilyApiKey = FALSE
  /\ embeddingCache = EmptyMap
  /\ chunkEmbeddings = EmptyMap
  /\ indexPc = "new"
  /\ indexI = 1
  /\ indexRet = Unset
  /\ embedFailed = {}
  /\ LocalsInit
  /\ call = NoCall
  /\ js = JsNew
  /\ firstVector = EmptyMap
  /\ inflight = <<>>
  /\ server = NoServer
  /\ chunker = NoChunker

chunkFrame == << indexVars, embeddingCache, call, js, firstVector, inflight, server >>

\* chunkDocument(content, chunkSize, overlap) up to the first loop test
ChunkStart(content, chunkSize, overlap) ==
  /\ chunker.pc = "idle"
  /\ chunker' = [pc |-> "loop", content |-> content, chunkSize |-> chunkSize,
                 overlap |-> overlap, words |-> Split(content), i |-> 0,
                 chunks |-> <<>>, steps |-> 0]
  /\ UNCHANGED chunkFrame
  /\ UNCHANGED processVars

\* one iteration of the loop: body, then increment
ChunkStep ==
  /\ chunker.pc = "loop"
  /\ chunker.i < Len(chunker.words)
  /\ chunker.steps < MaxChunkSteps
  /\ chunker' = [chunker EXCEPT
                   !.chunks = PushWindow(chunker.words, chunker.chunkSize,
                                         chunker.i, chunker.chunks),
                   !.i = NextStart(chunker.i, chunker.chunkSize, chunker.overlap),
                   !.steps = chunker.steps + 1]
  /\ UNCHANGED chunkFrame
  /\ UNCHANGED processVars

\* the loop test fails: return chunks
ChunkReturn ==
  /\ chunker.pc = "loop"
  /\ ~(chunker.i < Len(chunker.words))
  /\ chunker' = [chunker EXCEPT !.pc = "done"]
  /\ UNCHANGED chunkFrame
  /\ UNCHANGED processVars

NextChunk ==
  \/ /\ chunker.pc = "idle"
     /\ \E content \in Contents, chunkSize \in ChunkSizes, overlap \in Overlaps :
          ChunkStart(content, chunkSize, overlap)
  \/ ChunkStep
  \/ ChunkReturn

SpecChunk == InitChunk /\ [][NextChunk]_vars

\* ------------------------------------------------------------- web server
MaxReqs == 3

\* requests in order of arrival
ReqIds == 1..MaxReqs

\* the user ids clients send; a request without one is served as 'default'
Users == {"u1", "u2"}

\* where an upload carries its userId: query string, form field, or both
Places == {"query", "form", "both"}

\* v || 'default'
OrDefault(v) == IF v = NoValue THEN "default" ELSE v

\* extractUserId: req.query.userId || req.body.userId || 'default'
extractUserId(queryUserId, bodyUserId) ==
  IF queryUserId # NoValue THEN queryUserId ELSE OrDefault(bodyUserId)

\* a RAGMultiModelAgent as the server sees it: the files its index was built
\* from and the request that built it
NoAgent == [docs |-> {}, by |-> 0]

NoReq == [kind |-> NoValue, pc |-> "done", queryUserId |-> NoValue,
          bodyUserId |-> NoValue, userId |-> NoValue, file |-> 0,
          dir |-> NoValue, agent |-> NoAgent, status |-> 0, success |-> FALSE,
          processOk |-> TRUE, after |-> {}]

\* the requests that have been answered
Responded == {k \in 1..Len(server.reqs) : server.reqs[k].status # 0}

MapDelete(m, k) == [x \in (DOMAIN m) \ {k} |-> m[x]]

serverFrame == << indexVars, embeddingCache, call, js, firstVector, inflight, chunker >>

\* POST /api/upload arrives with a file: extractUserId runs on a req.body
\* that has no form field yet, then multer starts to read the multipart body
UploadArrive(u, place) ==
  /\ UNCHANGED serverFrame
  /\ UNCHANGED processVars
  /\ Len(server.reqs) < MaxReqs
  /\ LET q == IF place \in {"query", "both"} THEN u ELSE NoValue
         b == IF place \in {"form", "both"} THEN u ELSE NoValue
         r == Len(server.reqs) + 1
     IN server' = [server EXCEPT
          !.tempUserId = extractUserId(q, NoValue),
          !.reqs = Append(@, [NoReq EXCEPT
                     !.kind = "upload", !.pc = "parsing", !.queryUserId = q,
                     !.bodyUserId = b, !.file = r, !.after = Responded])]

\* multer reaches the file part: storage.destination, then the file is
\* written
UploadStore(r) ==
  /\ r <= Len(server.reqs)
  /\ UNCHANGED serverFrame
  /\ UNCHANGED processVars
  /\ server.reqs[r].pc = "parsing"
  /\ LET userDir == server.tempUserId
     IN server' = [server EXCEPT
          !.folders[userDir] = @ \cup {server.reqs[r].file},
          !.reqs[r].dir = userDir,
          !.reqs[r].pc = "stored"]

\* the upload handler up to the first await of getUserAgent
UploadHandle(r) ==
  /\ r <= Len(server.reqs)
  /\ UNCHANGED serverFrame
  /\ UNCHANGED processVars
  /\ server.reqs[r].pc = "stored"
  /\ LET userId == OrDefault(server.reqs[r].bodyUserId)
     IN server' = [server EXCEPT
          !.userAgents = MapDelete(@, userId),
          !.reqs[r].userId = userId,
          !.reqs[r].pc = "loading"]

\* DELETE /api/documents/:filename arrives: up to await fs.unlink
DeleteArrive(u, f) ==
  /\ UNCHANGED serverFrame
  /\ UNCHANGED processVars
  /\ Len(server.reqs) < MaxReqs
  /\ f <= Len(server.reqs)
  /\ server' = [server EXCEPT
       !.reqs = Append(@, [NoReq EXCEPT
                  !.kind = "delete", !.pc = "unlinking", !.queryUserId = u,
                  !.userId = OrDefault(u), !.file = f, !.after = Responded])]

\* fs.unlink settles: the handler goes on to getUserAgent, or answers 500
DeleteUnlink(r) ==
  /\ r <= Len(server.reqs)
  /\ UNCHANGED serverFrame
  /\ UNCHANGED processVars
  /\ server.reqs[r].pc = "unlinking"
  /\ LET userId == server.reqs[r].userId
     IN IF server.reqs[r].file \in server.folders[userId]
          THEN server' = [server EXCEPT
                 !.folders[userId] = @ \ {server.reqs[r].file},
                 !.userAgents = MapDelete(@, userId),
                 !.reqs[r].pc = "loading"]
          ELSE server' = [server EXCEPT
                 !.reqs[r].status = 500, !.reqs[r].pc = "done"]

\* POST /api/query arrives: the handler up to its first await
QueryArrive(u, hasQuery) ==
  /\ UNCHANGED serverFrame
  /\ UNCHANGED processVars
  /\ Len(server.reqs) < MaxReqs
  /\ LET userIdToUse == OrDefault(u)
         req == [NoReq EXCEPT !.kind = "query", !.bodyUserId = u,
                              !.after = Responded]
     IN server' = [server EXCEPT !.reqs = Append(@,
          IF ~hasQuery
            THEN [req EXCEPT !.status = 400]
          ELSE IF userIdToUse \in DOMAIN server.userAgents
            THEN [req EXCEPT !.userId = userIdToUse, !.pc = "process",
                             !.agent = server.userAgents[userIdToUse]]
            ELSE [req EXCEPT !.userId = userIdToUse, !.pc = "loading"])]

\* getUserAgent after fs.mkdir: a new agent, whose initialize reads the
\* user's folder
AgentLoad(r) ==
  /\ r <= Len(server.reqs)
  /\ UNCHANGED serverFrame
  /\ UNCHANGED processVars
  /\ server.reqs[r].pc = "loading"
  /\ server' = [server EXCEPT
       !.reqs[r].agent = [docs |-> server.folders[server.reqs[r].userId], by |-> r],
       !.reqs[r].pc = "indexing"]

\* initialize settles: the agent enters the session map; upload and delete
\* answer, a query goes on to process
AgentSet(r) ==
  /\ r <= Len(server.reqs)
  /\ UNCHANGED serverFrame
  /\ UNCHANGED processVars
  /\ server.reqs[r].pc = "indexing"
  /\ server' = [server EXCEPT
       !.userAgents = MapSet(@, server.reqs[r].userId, server.reqs[r].agent),
       !.reqs[r].pc = IF server.reqs[r].kind = "query" THEN "process" ELSE "done",
       !.reqs[r].status = IF server.reqs[r].kind = "query" THEN 0 ELSE 200,
       !.reqs[r].success = (server.reqs[r].kind # "query")]

\* the response of the query handler once process() has returned
queryResponse(processOk) == [status |-> 200, success |-> TRUE]

\* agent.process(query) returns its result, with success or with the
\* failure it caught; the handler answers
QueryRespond(r, processOk) ==
  /\ r <= Len(server.reqs)
  /\ UNCHANGED serverFrame
  /\ UNCHANGED processVars
  /\ server.reqs[r].pc = "process"
  /\ server' = [server EXCEPT
       !.reqs[r].processOk = processOk,
       !.reqs[r].status = queryResponse(processOk).status,
       !.reqs[r].success = queryResponse(processOk).success,
       !.reqs[r].pc = "done"]

InitServer ==
  /\ documents = <<>>
  /\ tavilyApiKey = FALSE
  /\ embeddingCache = EmptyMap
  /\ chunkEmbeddings = EmptyMap
  /\ indexPc = "new"
  /\ indexI = 1
  /\ indexRet = Unset
  /\ embedFailed = {}
  /\ LocalsInit
  /\ call = NoCall
  /\ js = JsNew
  /\ firstVector = EmptyMap
  /\ inflight = <<>>
  /\ chunker = NoChunker
  /\ server = NoServer

NextServer ==
  \/ \E u \in Users, place \in Places : UploadArrive(u, place)
  \/ \E r \in ReqIds : UploadStore(r)
  \/ \E r \in ReqIds : UploadHandle(r)
  \/ \E u \in Users, f \in ReqIds : DeleteArrive(u, f)
  \/ \E r \in ReqIds : DeleteUnlink(r)
  \/ \E u \in Users \cup {NoValue}, hasQuery \in BOOLEAN : QueryArrive(u, hasQuery)
  \/ \E r \in ReqIds : AgentLoad(r)
  \/ \E r \in ReqIds : AgentSet(r)
  \/ \E r \in ReqIds, processOk \in BOOLEAN : QueryRespond(r, processOk)

SpecServer == InitServer /\ [][NextServer]_vars

\* =============================================================== claims
Completed(c) == "threw" \in DOMAIN c

JudgeSettledCall(j) == judgeCall[j].state \in {"ok", "failed"}
JudgeFailed(j) == judgeCall[j].state = "failed"
IsEvaluation(v) == "evaluatorName" \in DOMAIN v

\* C1: evaluateResponse never throws and returns exactly one Evaluation per
\* configured evaluation model, whatever judges succeeded or failed.
C1_OneEvaluationPerJudge ==
  Completed(evalRet) =>
    /\ ~evalRet.threw
    /\ Len(evalRet.value) = Len(evaluationModels)
    /\ Cardinality({i \in DOMAIN evalRet.value : IsEvaluation(evalRet.value[i])})
         = Len(evaluationModels)

\* evaluateResponse has returned although every judge failed
C1_Witness ==
  /\ Completed(evalRet)
  /\ \A j \in Judges : JudgeFailed(j)

\* C2: every judge's generate call is issued before evaluateResponse awaits
\* and before any judge call settles; evaluateResponse completes only after
\* every judge call has settled, failed ones included.
C2_AllIssuedAllSettled ==
  /\ (pc = "evaluate" \/ \E j \in Judges : JudgeSettledCall(j))
        => \A j \in Judges : judgeCall[j].state # "idle"
  /\ Completed(evalRet) => \A j \in Judges : JudgeSettledCall(j)

\* evaluateResponse has returned after a failed judge and a later
\* successful one
C2_Witness ==
  /\ Completed(evalRet) /\ ~evalRet.threw
  /\ JudgeFailed(1)
  /\ judgeCall[3].state = "ok"

\* the evaluation text a judge's call outcome leads to
ExpectedText(j) ==
  IF JudgeFailed(j) THEN <<"Error: ", judgeCall[j].message>>
  ELSE ResultText(judgeCall[j].result)

\* C3: entry i of the returned sequence is the evaluation of configured
\* judge i, whatever order the judge calls completed in.
C3_ConfiguredOrder ==
  (Completed(evalRet) /\ ~evalRet.threw) =>
    \A i \in Judges :
      /\ evalRet.value[i].evaluatorName = evaluationModels[i].name
      /\ evalRet.value[i].model = evaluationModels[i].model
      /\ evalRet.value[i].provider = evaluationModels[i].provider
      /\ evalRet.value[i].evaluation = ExpectedText(i)

\* evaluateResponse has returned after the judges completed out of order
C3_Witness ==
  /\ Completed(evalRet) /\ ~evalRet.threw
  /\ hist.outOfOrder
  /\ \E i, k \in Judges : JudgeFailed(i) /\ ~JudgeFailed(k)

\* C4: a judge's Evaluation carries the error flag, and the error
\* description in its text, exactly when that judge's call failed.
C4_FailedIffCallFailed ==
  (Completed(evalRet) /\ ~evalRet.threw) =>
    /\ \A j \in Judges :
         /\ evalRet.value[j].error <=> JudgeFailed(j)
         /\ JudgeFailed(j) =>
              Contains(evalRet.value[j].evaluation, <<judgeCall[j].message>>)
    /\ Cardinality({j \in Judges : evalRet.value[j].error})
         = Cardinality({j \in Judges : JudgeFailed(j)})

\* exactly one of the three judges failed
C4_Witness ==
  /\ Completed(evalRet) /\ ~evalRet.threw
  /\ Cardinality({j \in Judges : JudgeFailed(j)}) = 1
  /\ Cardinality({j \in Judges : evalRet.value[j].error}) = 1

LoadBearingFailed ==
  hist.retrieve = "fail" \/ hist.draft = "fail" \/ hist.aggregate = "fail"

\* C5: process never throws; when retrieval, draft generation or
\* aggregation fails it returns success=false with the error message and the
\* original query, otherwise success=true with the draft, the evaluations
\* and the final result.
C5_ProcessNeverThrows ==
  pc = "done" =>
    /\ ~result.threw
    /\ IF LoadBearingFailed
         THEN result.value = [success |-> FALSE, error |-> hist.thrown,
                              userQuery |-> userQuery]
         ELSE /\ result.value.success
              /\ result.value.userQuery = userQuery
              /\ result.value.initialResponse = response
              /\ result.value.evaluations = evalRet.value
              /\ result.value.finalResult = aggRet.value

\* process has returned after the draft generation call failed
C5_Witness ==
  /\ pc = "done"
  /\ hist.draft = "fail"
  /\ ~result.threw /\ ~result.value.success

\* C6: a process() result is a failure only when retrieval, draft
\* generation or aggregation failed; failures of query enhancement, of web
\* search and of any judges leave it a success.
C6_SupplementaryAbsorbed ==
  (pc = "done" /\ ~LoadBearingFailed) => (~result.threw /\ result.value.success)

\* enhancement, search and every judge failed, and process succeeded
C6_Witness ==
  /\ pc = "done"
  /\ hist.enhance = "fail"
  /\ hist.search = "fail"
  /\ \A j \in Judges : JudgeFailed(j)
  /\ ~result.threw /\ result.value.success

C8_AggregationFailurePropagates ==
  (Completed(aggRet) /\ hist.aggregate = "fail") =>
    /\ aggRet.threw
    /\ aggRet.message = hist.thrown
    /\ pc = "done" /\ ~result.threw /\ ~result.value.success
    /\ "finalResult" \notin DOMAIN result.value

\* the synthesis call failed after the judges had succeeded
C8_Witness ==
  /\ Completed(aggRet)
  /\ hist.aggregate = "fail"
  /\ \A j \in Judges : ~JudgeFailed(j)

AllEvaluationsFailed ==
  /\ Completed(evalRet) /\ ~evalRet.threw
  /\ \A j \in Judges : evalRet.value[j].error

\* C9 as claimed: with every evaluation failed, aggregation does not raise,
\* its input carries a note that no evaluations were available, and the
\* decision returned is Accept.
C9_Original ==
  (AllEvaluationsFailed /\ Completed(aggRet)) =>
    /\ ~aggRet.threw
    /\ aggregationPrompt.evaluations # <<>>
    /\ "decision" \in DOMAIN aggRet.value
    /\ aggRet.value.decision = "Accept"

\* C9 as amended: with every evaluation failed the synthesis call is still
\* made, with the draft answer and an empty evaluations section; the call's
\* failure is the only way it raises, and what it returns is the final
\* response text with metadata, without a decision field.
C9_AllFailedStillAggregates ==
  AllEvaluationsFailed =>
    /\ pc = "aggregate" \/ Completed(aggRet)
    /\ aggregationPrompt.initialResponse = response
    /\ aggregationPrompt.evaluations = <<>>
    /\ Completed(aggRet) =>
         /\ aggRet.threw <=> hist.aggregate = "fail"
         /\ ~aggRet.threw =>
              /\ DOMAIN aggRet.value = {"finalResponse", "metadata"}
              /\ result.value.finalResult = aggRet.value

\* aggregation has returned a final response after every judge failed
C9_Witness ==
  /\ AllEvaluationsFailed
  /\ Completed(aggRet) /\ ~aggRet.threw
  /\ pc = "done" /\ result.value.success

\* the blocks of the judges from judge j on whose call did not fail
RECURSIVE ExpectedBlocks(_)
ExpectedBlocks(j) ==
  IF j > Len(evaluationModels) THEN <<>>
  ELSE (IF JudgeFailed(j) THEN <<>>
        ELSE << <<"### ", evaluationModels[j].name, " Evaluation:\n">>
                \o ResultText(judgeCall[j].result) >>)
       \o ExpectedBlocks(j + 1)

\* C10: the evaluations section of the synthesis input is made of the
\* evaluation texts of exactly the judges that did not fail, in configured
\* order; no failed evaluation's text is in it; and the synthesis call is
\* made whatever the number of failed evaluations.
C10_OnlySurvivingEvaluations ==
  (Completed(evalRet) /\ ~evalRet.threw) =>
    /\ pc = "aggregate" \/ Completed(aggRet)
    /\ aggregationPrompt.evaluations = Join(ExpectedBlocks(1), <<"\n\n">>)
    /\ \A j \in Judges :
         JudgeFailed(j) =>
           ~Contains(aggregationPrompt.evaluations, evalRet.value[j].evaluation)

\* the synthesis call is pending with the middle judge failed
C10_Witness ==
  /\ pc = "aggregate"
  /\ JudgeFailed(2) /\ ~JudgeFailed(1) /\ ~JudgeFailed(3)
  /\ aggregationPrompt.evaluations # <<>>

\* C11: a retrieve made before indexDocuments has completed (never run, or
\* running with some chunks embedded) fails with the not-ready error or
\* returns the empty sequence; it never returns ranked results.
C11_NotReadyOrEmpty ==
  (call.op = "retrieve" /\ call.phase \in {"new", "indexing"})
    => \/ call.ret = Throw(NotIndexed)
       \/ call.ret = Return(<<>>)

\* C12: once indexDocuments has returned over a document set with no chunk,
\* a retrieve returns the empty sequence and does not fail.
C12_EmptyButReady ==
  (call.op = "retrieve" /\ call.phase = "returned"
     /\ Len(getAllChunks(js.documents)) = 0)
    => call.ret = Return(<<>>)

\* the same on the TypeScript retriever
C12_EmptyButReadyTs ==
  (call.op = "retrieve" /\ call.phase = "ready"
     /\ Len(getAllChunks(documents)) = 0)
    => call.ret = Return(<<>>)

\* C13: for every integer topK, a retrieve on a retriever whose
\* indexDocuments has completed returns at most topK items, and for
\* topK <= 0 it returns the empty sequence without error.
C13_AtMostTopK ==
  (call.op = "retrieve" /\ call.phase = "ready")
    => /\ (call.topK > 0 /\ ~call.ret.threw) => Len(call.ret.value) <= call.topK
       /\ call.topK <= 0 => call.ret = Return(<<>>)

\* the chunks that have an embedding in the index, by position, and the
\* similarity of each to the query of the last retrieve
IndexedPositions ==
  {i \in 1..Len(getAllChunks(documents)) :
     ChunkKey(getAllChunks(documents)[i]) \in DOMAIN chunkEmbeddings}

ScoreAt(i) ==
  cosineSimilarity(embeddingCache[call.query],
                   chunkEmbeddings[ChunkKey(getAllChunks(documents)[i])]).value

RankedBefore(a, b) ==
  \/ ScoreAt(a) > ScoreAt(b)
  \/ ScoreAt(a) = ScoreAt(b) /\ a < b

Min(a, b) == IF a < b THEN a ELSE b

\* C14: for topK >= 1 on a completed index with n indexed chunks, a retrieve
\* that returns gives the first min(topK, n) indexed chunks in descending
\* order of similarity to the query, equal scores in insertion order, and no
\* omitted chunk ranks before a returned one.
C14_RankedPrefix ==
  (call.op = "retrieve" /\ call.phase = "ready" /\ call.topK >= 1 /\ ~call.ret.threw)
    => LET r == call.ret.value
           m == Min(call.topK, Cardinality(IndexedPositions))
       IN /\ Len(r) = m
          /\ \E f \in [1..m -> IndexedPositions] :
               /\ \A j \in 1..m :
                    r[j] = [text |-> getAllChunks(documents)[f[j]].text,
                            score |-> ScoreAt(f[j]),
                            source |-> getAllChunks(documents)[f[j]].source]
               /\ \A j1, j2 \in 1..m : j1 < j2 => RankedBefore(f[j1], f[j2])
               /\ \A i \in IndexedPositions \ {f[j] : j \in 1..m} :
                    \A j \in 1..m : RankedBefore(f[j], i)

\* three chunks indexed, the last one the most similar and the first two
\* tied: topK = 2 returns the last, then the first
C14_Witness ==
  /\ call.op = "retrieve" /\ call.phase = "ready" /\ call.topK = 2
  /\ ~call.ret.threw
  /\ Cardinality(IndexedPositions) = 3
  /\ Len(call.ret.value) = 2
  /\ call.ret.value[1].source = "b.txt"
  /\ call.ret.value[2].source = "a.txt"
  /\ call.ret.value[1].score > call.ret.value[2].score

\* C15: after clear() on a retriever whose indexDocuments had completed no
\* document, no chunk embedding and no cached embedding remains, and until
\* indexDocuments is run again a retrieve behaves as on a never-indexed
\* retriever: the empty sequence, the embedding provider not asked.
C15_ClearResetsToEmpty ==
  /\ call.op = "clear"
       => /\ documents = <<>>
          /\ chunkEmbeddings = EmptyMap
          /\ embeddingCache = EmptyMap
  /\ (call.op = "retrieve" /\ call.phase = "new")
       => call.ret = Return(<<>>) /\ ~call.called

\* the text holds e at position p
HoldsAt(t, p, e) == p + Len(e) - 1 <= Len(t) /\ SubSeq(t, p, p + Len(e) - 1) = e

\* what formatContext is to say of its j-th chunk: rank, source, relevance
\* in percent, then the text of the chunk
ListedAs(chunks, j) ==
  << "[", ToString(j), "] From ", chunks[j].source, " (Relevance: " >>
  \o Percent(chunks[j].score) \o << "%):\n" >> \o chunks[j].text

\* C16: formatContext returns the sentinel exactly when its input is empty;
\* for a non-empty input the output lists the chunks in input order, each
\* with its source and its relevance percentage.
C16_SentinelIffEmpty ==
  (call.op = "retrieve" /\ ~call.ret.threw)
    => LET chunks == call.ret.value
       IN /\ call.context = EmptyContextSentinel <=> chunks = <<>>
          /\ chunks # <<>> =>
               \E f \in [1..Len(chunks) -> 1..Len(call.context)] :
                 /\ \A j \in 1..Len(chunks) :
                      HoldsAt(call.context, f[j], ListedAs(chunks, j))
                 /\ \A j \in 1..(Len(chunks) - 1) :
                      f[j] + Len(ListedAs(chunks, j)) <= f[j + 1]

\* two chunks of different sources and scores have been formatted
C16_Witness ==
  /\ call.op = "retrieve" /\ ~call.ret.threw
  /\ Len(call.ret.value) = 2
  /\ call.ret.value[1].source # call.ret.value[2].source
  /\ call.ret.value[1].score # call.ret.value[2].score
  /\ call.context # EmptyContextSentinel

\* C17 as claimed: when retrieval yields no chunks, the document context
\* handed to draft generation is the sentinel of formatContext.
C17_Original ==
  (pc = "generate" /\ retrieval.chunks = <<>>)
    => /\ retrieval.context = EmptyContextSentinel
       /\ Contains(draftPrompt, EmptyContextSentinel)

\* C17: when retrieval yields no chunks the document context is the empty
\* string, no error is raised up to the draft generation call, which is
\* issued with a prompt of the no-documents kind that holds no document
\* section and no sentinel.
C17_NoChunksStillDrafts ==
  (hist.retrieve = "ok" /\ retrieval.chunks = <<>>)
    => /\ retrieval.context = <<>>
       /\ pc = "done" => hist.draft # "none"
       /\ hist.draft = "none" => hist.thrown = NoValue
       /\ pc = "generate" =>
            /\ draftPrompt[1] \in {"Use web search results as a fallback.",
                                   "You are a helpful AI assistant. "}
            /\ ~Contains(draftPrompt, EmptyContextSentinel)
            /\ ~Contains(draftPrompt,
                         <<"**PRIMARY SOURCE - UPLOADED DOCUMENT CONTENT:**\n">>)

\* no document is loaded, indexDocuments has returned, retrieval gave no
\* chunk and the draft generation call is issued
C17_Witness ==
  /\ documents = <<>> /\ indexPc = "ready"
  /\ pc = "generate"
  /\ hist.retrieve = "ok" /\ retrieval.chunks = <<>>

\* C18: when the generation call made by query enhancement fails, the
\* enhanced query is the original query and no error reaches process():
\* the pipeline goes on to web search.
C18_EnhanceFailOpen ==
  hist.enhance = "fail"
    => /\ queryEnhancement = [original |-> userQuery, enhanced |-> userQuery]
       /\ pc = "search" \/ hist.search # "none"

\* the generation call of the enhancement has just failed
C18_Witness ==
  /\ hist.enhance = "fail"
  /\ pc = "search"
  /\ retrieval.context # <<>>
  /\ queryEnhancement.enhanced = userQuery

\* C19: an enhancement called with an empty document context returns the
\* original query and issues no generation call, on each entry point: the
\* agent's enhanceQuery, WebSearch.enhanceQuery and enhancedSearch.
C19_EmptyContextNoCall ==
  (call.op \in {"agent.enhanceQuery", "enhanceQuery", "enhancedSearch"}
     /\ call.context = <<>>)
    => /\ ~call.called
       /\ call.enhanced = call.query

\* what a search result says when search is unavailable: no result and the
\* unavailable summary (for the CommonJS result, whose results are one text:
\* that text is the unavailable notice and nothing was generated)
SaysUnavailable(r) ==
  IF "aiSummary" \in DOMAIN r
    THEN r.results = <<>> /\ r.aiSummary = Unconfigured
    ELSE r.results = JsUnavailable /\ ~r.fallback

\* C20: a search made with no API key configured does not raise; its result
\* holds no results and says that search is unavailable.
C20_NoKeyUnavailable ==
  (call.op \in {"search", "js.search"} /\ ~tavilyApiKey)
    => /\ ~call.ret.threw
       /\ SaysUnavailable(call.ret.value)

\* the same for WebSearch.search within process()
C20_NoKeyUnavailableTs ==
  (~tavilyApiKey /\ hist.search # "none")
    => /\ hist.search = "skipped"
       /\ webResults = [aiSummary |-> Unconfigured, results |-> <<>>]

\* the result is a fallback answer: no result of the web, and a summary
\* that starts with the not-live tag (for the CommonJS result, whose
\* results are one text: that text starts with the tag)
TaggedNotLive(r) ==
  IF "aiSummary" \in DOMAIN r
    THEN r.results = <<>> /\ HoldsAt(r.aiSummary, 1, NotLiveTag)
    ELSE r.fallback /\ HoldsAt(r.results, 1, NotLiveTag)

\* the result of a fallback whose own generation call failed
FallbackFailed(r) ==
  IF "aiSummary" \in DOMAIN r
    THEN FALSE
    ELSE r.error /\ r.results = JsUnavailable

\* C21: when the search backend fails (transport error or non-success
\* status) search does not raise: it makes a generation call and returns a
\* result with no web results, tagged as not live web data (or, when that
\* generation call fails too, still a result).
C21_BackendFailureFallsBack ==
  (call.op \in {"search", "js.search"} /\ call.answer \in {"throw", "status"})
    => /\ ~call.ret.threw
       /\ call.called
       /\ TaggedNotLive(call.ret.value) \/ FallbackFailed(call.ret.value)

\* the same on the CommonJS WebSearchService alone
C21_BackendFailureFallsBackJs ==
  (call.op = "js.search" /\ call.answer \in {"throw", "status"})
    => /\ ~call.ret.threw
       /\ call.called
       /\ TaggedNotLive(call.ret.value) \/ FallbackFailed(call.ret.value)

\* C22: once an embedding of a text has succeeded, every later embedding of
\* the same text before the cache is cleared returns the same vector and the
\* provider is not asked.
C22_CacheHit ==
  (call.op = "embed" /\ call.phase = "repeat")
    => /\ call.ret = Return(firstVector[call.query])
       /\ ~call.called
       /\ embeddingCache = call.before

\* a text is embedded again after its first embedding succeeded, the
\* provider standing ready to fail
C22_Witness ==
  /\ call.op = "embed" /\ call.phase = "repeat"
  /\ call.answer = "fail"
  /\ ~call.ret.threw

\* C23: when the provider fails for a text that is not in the cache,
\* generateEmbedding fails to its caller with that error, returns no vector,
\* and the cache is exactly as it was before the call
C23_FailureRaisesCacheKept ==
  (/\ call.op = "embed"
   /\ call.query \notin DOMAIN call.before
   /\ call.answer = "fail")
    => /\ call.called
       /\ call.ret.threw
       /\ call.ret \in {Throw(m) : m \in EmbedErrors}
       /\ embeddingCache = call.before

\* the provider has failed for a text while another text was cached
C23_Witness ==
  /\ call.op = "embed"
  /\ call.query \notin DOMAIN call.before
  /\ call.answer = "fail"
  /\ call.before # EmptyMap
  /\ call.ret.threw

\* item i of a batch fails: its text is not cached when its turn comes
\* (neither before the batch nor by an earlier item) and the provider fails
ItemKnown(before, texts, ups, i) ==
  \/ texts[i] \in DOMAIN before
  \/ \E j \in 1..(i - 1) : texts[j] = texts[i] /\ ~ups[j].threw

ItemFailed(before, texts, ups, i) ==
  ~ItemKnown(before, texts, ups, i) /\ ups[i].threw

\* the vector item i stands for when it does not fail
ItemVector(before, texts, ups, i) ==
  IF texts[i] \in DOMAIN before THEN before[texts[i]]
  ELSE LET first == CHOOSE j \in 1..i :
                      /\ texts[j] = texts[i] /\ ~ups[j].threw
                      /\ \A h \in 1..(j - 1) : ~(texts[h] = texts[i] /\ ~ups[h].threw)
       IN ups[first].value

\* C24: the batch returns one entry per text, the embedding of the text or
\* null where embedding it failed; it never raises and the items after a
\* failed one are still embedded
C24_BatchNullOnFailure ==
  call.op = "embedBatch"
    => /\ ~call.ret.threw
       /\ Len(call.ret.value) = Len(call.query)
       /\ \A i \in 1..Len(call.query) :
            call.ret.value[i] =
              IF ItemFailed(call.before, call.query, call.answer, i)
                THEN JsNull
                ELSE JsVec(ItemVector(call.before, call.query, call.answer, i))

\* what generateBatchEmbeddings does instead: the same, with an empty array
\* where the claim has null
C24_BatchEmptyOnFailureTs ==
  call.op = "embedBatch"
    => /\ ~call.ret.threw
       /\ Len(call.ret.value) = Len(call.query)
       /\ \A i \in 1..Len(call.query) :
            call.ret.value[i] =
              IF ItemFailed(call.before, call.query, call.answer, i)
                THEN JsVec(<<>>)
                ELSE JsVec(ItemVector(call.before, call.query, call.answer, i))

\* an operand for which the claim expects 0: null, empty, or of norm zero
Degenerate(e) ==
  \/ e.isNull
  \/ e.values = <<>>
  \/ Dot(e.values, e.values) = 0

\* the pair of operands is one of the claim's cases
ZeroCase(a, b) ==
  \/ Degenerate(a)
  \/ Degenerate(b)
  \/ Len(a.values) # Len(b.values)

\* C25: cosineSimilarity returns 0 and does not raise when an operand is
\* null or empty, when the two lengths differ, or when a norm is zero
C25_ZeroNeverRaises ==
  (call.op \in {"cosineSimilarity", "js.cosineSimilarity"}
     /\ ZeroCase(call.query[1], call.query[2]))
    => call.ret = Return(0)

\* the CommonJS cosineSimilarity does so
C25_ZeroNeverRaisesJs ==
  (call.op = "js.cosineSimilarity" /\ ZeroCase(call.query[1], call.query[2]))
    => call.ret = Return(0)

\* the TypeScript cosineSimilarity returns 0 only for operands of one
\* length; it raises for null and for two lengths that differ
C25_ZeroOrRaisesTs ==
  (call.op = "cosineSimilarity" /\ ZeroCase(call.query[1], call.query[2]))
    => IF call.query[1].isNull \/ call.query[2].isNull
         THEN call.ret = Throw(NullLength)
         ELSE IF Len(call.query[1].values) # Len(call.query[2].values)
           THEN call.ret = Throw(LengthMismatch)
           ELSE call.ret = Return(0)

\* chunkDocument runs with parameters the claims call valid
ValidChunking == chunker.pc # "idle" /\ chunker.overlap < chunker.chunkSize

\* C26: with overlap >= chunkSize chunkDocument fails before it works: it
\* runs no iteration of its loop, collects no chunk and returns nothing
C26_InvalidOverlapRejected ==
  (chunker.pc # "idle" /\ chunker.overlap >= chunker.chunkSize)
    => /\ chunker.steps = 0
       /\ chunker.chunks = <<>>
       /\ chunker.pc # "done"

\* what chunkDocument does instead: the loop test never fails, so the call
\* neither returns nor raises
C26_InvalidOverlapLoops ==
  (chunker.pc # "idle" /\ chunker.overlap >= chunker.chunkSize)
    => /\ chunker.pc = "loop"
       /\ chunker.i <= 0
       /\ chunker.i < Len(chunker.words)

\* the window of `words` that starts at index start (from 0):
\* the words [start, min(start + chunkSize, W))
WindowAt(words, chunkSize, start) ==
  SubSeq(words, start + 1,
         IF start + chunkSize < Len(words) THEN start + chunkSize ELSE Len(words))

\* the windows at 0, s, 2s, ... below W, s = chunkSize - overlap, each as
\* the text of its words joined by single blanks
WindowTexts(words, chunkSize, overlap) ==
  LET s == chunkSize - overlap
      count == (Len(words) + s - 1) \div s
  IN [k \in 1..count |-> Join(WindowAt(words, chunkSize, (k - 1) * s), << " " >>)]

TrimAll(ts) == [k \in 1..Len(ts) |-> Trim(ts[k])]

NotBlank(t) == Trim(t) # <<>>

\* the words of a chunk
ChunkWords(c) == Split(c)

\* C27 as stated: the chunks returned are exactly the windows, in order
C27_ExactlyTheWindows ==
  (ValidChunking /\ chunker.pc = "done")
    => chunker.chunks = WindowTexts(chunker.words, chunker.chunkSize, chunker.overlap)

\* C27 (amended): the chunks returned are, in order, the windows at 0, s,
\* 2s, ... below W, each trimmed, those blank after trimming left out; a
\* chunk has at most chunkSize words, and of two consecutive chunks of
\* chunkSize words the second begins with the last `overlap` words of the
\* first
C27_TrimmedNonBlankWindows ==
  (ValidChunking /\ chunker.pc = "done")
    => /\ chunker.chunks =
            SelectSeq(TrimAll(WindowTexts(chunker.words, chunker.chunkSize,
                                          chunker.overlap)), NotBlank)
       /\ \A j \in 1..Len(chunker.chunks) :
            Len(ChunkWords(chunker.chunks[j])) <= chunker.chunkSize
       /\ \A j \in 1..(Len(chunker.chunks) - 1) :
            LET c1 == ChunkWords(chunker.chunks[j])
                c2 == ChunkWords(chunker.chunks[j + 1])
            IN (Len(c1) = chunker.chunkSize /\ Len(c2) = chunker.chunkSize)
                 => SubSeq(c1, chunker.chunkSize - chunker.overlap + 1, chunker.chunkSize)
                      = SubSeq(c2, 1, chunker.overlap)

\* a call has returned two overlapping chunks of chunkSize words, then a
\* shorter one, and left a blank window out
C27_Witness ==
  /\ ValidChunking /\ chunker.pc = "done"
  /\ chunker.overlap > 0
  /\ Len(chunker.chunks) >= 3
  /\ Len(ChunkWords(chunker.chunks[1])) = chunker.chunkSize
  /\ Len(ChunkWords(chunker.chunks[2])) = chunker.chunkSize
  /\ chunker.chunks[1] # chunker.chunks[2]
  /\ Len(chunker.chunks)
       < Len(WindowTexts(chunker.words, chunker.chunkSize, chunker.overlap))

\* C28: every chunk chunkDocument collects is its own trimmed text and is
\* not empty; for an empty or blank content and valid parameters the loop
\* ends within one iteration per piece and the call returns no chunk
C28_ChunksNonEmpty ==
  /\ \A j \in 1..Len(chunker.chunks) :
       /\ chunker.chunks[j] # <<>>
       /\ Trim(chunker.chunks[j]) = chunker.chunks[j]
  /\ (ValidChunking /\ Trim(chunker.content) = <<>>)
       => /\ chunker.chunks = <<>>
          /\ chunker.steps <= Len(chunker.words)
          /\ (chunker.pc = "loop" /\ chunker.i < Len(chunker.words))
               => chunker.steps < MaxChunkSteps

\* a blank content that is not empty has been chunked: its windows were
\* tested and none was collected
C28_Witness ==
  /\ ValidChunking /\ chunker.pc = "done"
  /\ chunker.content # <<>>
  /\ Trim(chunker.content) = <<>>
  /\ chunker.steps >= 2
  /\ chunker.chunks = <<>>

NonEmptyPiece(w) == w # <<>>

\* the words of a content: the pieces of its split that are not empty
WordsOf(content) == SelectSeq(Split(content), NonEmptyPiece)

\* from chunk j on, the words each chunk adds to the chunks before it: all
\* words of the first chunk, the words after the first `overlap` ones of a
\* later chunk
RECURSIVE NewWords(_, _, _)
NewWords(chunks, overlap, j) ==
  IF j > Len(chunks) THEN <<>>
  ELSE LET ws == ChunkWords(chunks[j])
           skip == IF j = 1 THEN 0 ELSE overlap
       IN SubSeq(ws, skip + 1, Len(ws)) \o NewWords(chunks, overlap, j + 1)

\* C29: for valid parameters the chunks returned cover the words of the
\* content from left to right: every word is in some chunk, and the words
\* each chunk adds to the earlier chunks, in chunk order, are the words of
\* the content in order
C29_ChunksCoverWords ==
  (ValidChunking /\ chunker.pc = "done")
    => /\ NewWords(chunker.chunks, chunker.overlap, 1) = WordsOf(chunker.content)
       /\ \A p \in 1..Len(WordsOf(chunker.content)) :
            \E j \in 1..Len(chunker.chunks) :
              \E q \in 1..Len(ChunkWords(chunker.chunks[j])) :
                ChunkWords(chunker.chunks[j])[q] = WordsOf(chunker.content)[p]

\* a content of three or more words that begins with a blank was chunked
\* with an overlap into three or more chunks
C29_Witness ==
  /\ ValidChunking /\ chunker.pc = "done"
  /\ chunker.overlap > 0
  /\ Len(chunker.chunks) >= 3
  /\ Len(WordsOf(chunker.content)) >= 3
  /\ WordsOf(chunker.content)[1] # WordsOf(chunker.content)[2]
  /\ chunker.content[1] = " "

\* C30 as stated: a chunk returned has at most chunkSize words, and
\* chunkDocument on that chunk with the same parameters returns it alone
C30_RechunkIsIdentity ==
  (ValidChunking /\ chunker.pc = "done")
    => \A j \in 1..Len(chunker.chunks) :
         /\ Len(ChunkWords(chunker.chunks[j])) <= chunker.chunkSize
         /\ chunkDocument(chunker.chunks[j], chunker.chunkSize, chunker.overlap)
              = << chunker.chunks[j] >>

\* C30 (amended): a chunk returned has at most chunkSize words, and
\* chunkDocument on that chunk with the same parameters returns the chunk
\* first; it returns the chunk alone exactly when the chunk has at most
\* chunkSize - overlap words, and else goes on with the windows of the
\* chunk at chunkSize - overlap, 2 * (chunkSize - overlap), ...
C30_RechunkStartsWithChunk ==
  (ValidChunking /\ chunker.pc = "done")
    => \A j \in 1..Len(chunker.chunks) :
         LET c == chunker.chunks[j]
             again == chunkDocument(c, chunker.chunkSize, chunker.overlap)
             step == chunker.chunkSize - chunker.overlap
         IN /\ Len(ChunkWords(c)) <= chunker.chunkSize
            /\ Len(again) >= 1
            /\ again[1] = c
            /\ (Len(again) = 1) <=> (Len(ChunkWords(c)) <= step)
            /\ \A m \in 1..Len(again) :
                 ChunkWords(again[m])
                   = SubSeq(ChunkWords(c), (m - 1) * step + 1, Len(ChunkWords(c)))

\* a chunk of chunkSize words was returned for parameters with an overlap,
\* so chunking it again gives more than the chunk
C30_Witness ==
  /\ ValidChunking /\ chunker.pc = "done"
  /\ chunker.overlap > 0
  /\ \E j \in 1..Len(chunker.chunks) :
       /\ Len(ChunkWords(chunker.chunks[j])) = chunker.chunkSize
       /\ Len(chunkDocument(chunker.chunks[j], chunker.chunkSize, chunker.overlap)) > 1
  /\ \E j \in 1..Len(chunker.chunks) :
       chunkDocument(chunker.chunks[j], chunker.chunkSize, chunker.overlap)
         = << chunker.chunks[j] >>

\* the user an upload request is made for
OwnUser(req) ==
  IF req.queryUserId # NoValue THEN req.queryUserId ELSE req.bodyUserId

\* the file of upload request r has been written
Stored(r) == server.reqs[r].kind = "upload" /\ server.reqs[r].dir # NoValue

\* C31: every upload stores its file in the folder of the user the request
\* names, in the query string or in the form field, and rebuilds the agent
\* of that user, under every interleaving of uploads
C31_UploadIsolation ==
  \A r \in 1..Len(server.reqs) :
    server.reqs[r].kind = "upload"
      => /\ Stored(r) => server.reqs[r].dir = OwnUser(server.reqs[r])
         /\ server.reqs[r].userId # NoValue
              => server.reqs[r].userId = OwnUser(server.reqs[r])

\* the same for uploads that name their user in both places: only the
\* interleaving is left to go wrong
C31_UploadIsolationBothPlaces ==
  \A r \in 1..Len(server.reqs) :
    (/\ server.reqs[r].kind = "upload"
     /\ server.reqs[r].queryUserId # NoValue
     /\ server.reqs[r].bodyUserId # NoValue)
      => /\ Stored(r) => server.reqs[r].dir = OwnUser(server.reqs[r])
         /\ server.reqs[r].userId # NoValue
              => server.reqs[r].userId = OwnUser(server.reqs[r])

\* request c changed the documents of user u and answered with success:
\* an upload stored in u's folder by u's request, or a delete in u's folder
ChangedFor(c, u) ==
  /\ server.reqs[c].kind \in {"upload", "delete"}
  /\ server.reqs[c].success
  /\ server.reqs[c].userId = u
  /\ server.reqs[c].kind = "upload" => server.reqs[c].dir = u

\* the file set `docs` is one of after the change made by request c: it has
\* the uploaded file unless a delete request for it was made, and it lacks
\* the deleted file
Reflects(docs, c) ==
  IF server.reqs[c].kind = "upload"
    THEN \/ server.reqs[c].file \in docs
         \/ \E d \in 1..Len(server.reqs) :
              /\ server.reqs[d].kind = "delete"
              /\ server.reqs[d].file = server.reqs[c].file
              /\ server.reqs[d].userId = server.reqs[c].dir
    ELSE server.reqs[c].file \notin docs

\* C32: a query that arrives after an upload or delete of its user has
\* answered with success is served by an agent built from the documents
\* after that change
C32_QuerySeesChange ==
  \A q \in 1..Len(server.reqs) :
    (server.reqs[q].kind = "query" /\ server.reqs[q].agent.by # 0)
      => \A c \in server.reqs[q].after :
           ChangedFor(c, server.reqs[q].userId)
             => Reflects(server.reqs[q].agent.docs, c)

\* query request r has been answered after process() returned
AnsweredFromProcess(r) ==
  /\ server.reqs[r].kind = "query"
  /\ server.reqs[r].pc = "done"
  /\ server.reqs[r].agent.by # 0

\* C38: the query handler answers success = true only if process() returned
\* success = true, and answers a failure result of process() with an error
\* response
C38_QueryResultMapped ==
  \A r \in 1..Len(server.reqs) :
    AnsweredFromProcess(r)
      => /\ server.reqs[r].success => server.reqs[r].processOk
         /\ ~server.reqs[r].processOk
              => ~server.reqs[r].success /\ server.reqs[r].status >= 400

\* what the handler does: every result of process() is answered as a
\* success with status 200
C38_QueryAlwaysSuccess ==
  \A r \in 1..Len(server.reqs) :
    AnsweredFromProcess(r)
      => server.reqs[r].success /\ server.reqs[r].status = 200

\* a judge's call has been issued in this run
JudgeIssued(j) == judgeCall[j].state # "idle"

\* the aggregation call has been issued or answered
AggregationIssued == pc = "aggregate" \/ hist.aggregate # "none"

\* C33: within one process() the stages run in the order retrieve, enhance,
\* web search, draft, evaluation, aggregation: a stage is reached only when
\* the one before it has completed, no judge is called before the draft
\* exists, the aggregator only after every judge has settled, and after a
\* failure that propagates no later stage is called
C33_StagesInOrder ==
  /\ hist.enhance # "none" => hist.retrieve = "ok"
  /\ hist.search # "none" => hist.enhance # "none"
  /\ (pc = "generate" \/ hist.draft # "none") => hist.search # "none"
  /\ \A j \in Judges : JudgeIssued(j) => hist.draft = "ok"
  /\ AggregationIssued
       => /\ \A j \in Judges : JudgeSettledCall(j)
          /\ Completed(evalRet) /\ ~evalRet.threw
  /\ hist.retrieve = "fail"
       => /\ hist.enhance = "none" /\ hist.search = "none" /\ hist.draft = "none"
          /\ pc = "done"
  /\ (hist.retrieve = "fail" \/ hist.draft = "fail")
       => /\ \A j \in Judges : ~JudgeIssued(j)
          /\ ~AggregationIssued
          /\ pc = "done"

\* a run went through all six stages, with a failed enhancement and a
\* failed judge on the way, and ended with a failed aggregation
C33_Witness ==
  /\ pc = "done"
  /\ hist.enhance = "fail"
  /\ \E j \in Judges : JudgeFailed(j)
  /\ hist.aggregate = "fail"

\* C34: within one process() the enhancement call, the search backend
\* call, the draft call, each judge's call and the aggregation call are
\* issued at most once; a stage that has been answered, with a result or
\* with a failure, has been called exactly once
C34_NoCallTwice ==
  /\ hist.calls.enhance <= 1 /\ hist.calls.search <= 1
  /\ hist.calls.draft <= 1 /\ hist.calls.aggregate <= 1
  /\ \A j \in Judges : hist.calls.judge[j] <= 1
  /\ hist.enhance \in {"ok", "fail"} => hist.calls.enhance = 1
  /\ hist.search \in {"ok", "fail"} => hist.calls.search = 1
  /\ hist.draft \in {"ok", "fail"} => hist.calls.draft = 1
  /\ hist.aggregate \in {"ok", "fail"} => hist.calls.aggregate = 1
  /\ \A j \in Judges : JudgeSettledCall(j) => hist.calls.judge[j] = 1

\* a run has ended in which the enhancement, the search backend, a judge
\* and the aggregation failed, each called once
C34_Witness ==
  /\ pc = "done"
  /\ hist.enhance = "fail" /\ hist.calls.enhance = 1
  /\ hist.search = "fail" /\ hist.calls.search = 1
  /\ \E j \in Judges : JudgeFailed(j) /\ hist.calls.judge[j] = 1
  /\ hist.aggregate = "fail" /\ hist.calls.aggregate = 1

\* the headings under which generateResponse presents web results
WebResultHeadings ==
  { <<"**SUPPLEMENTARY SOURCE - Web Search Results (for additional context):**\n">>,
    <<"**Web Search Results:**\n">>, <<"AI Summary: ">>, <<"Web Results:\n">> }

\* C35: when the search was not configured or its backend call failed,
\* the draft prompt carries no web-results section and nothing of the
\* result the search returned
C35_FailedSearchNotInDraft ==
  hist.search \in {"skipped", "fail"}
    => /\ \A h \in WebResultHeadings : ~Contains(draftPrompt, h)
       /\ ~Contains(draftPrompt, webResults.aiSummary)

\* a draft has been generated from a document context after the search
\* backend failed
C35_Witness ==
  /\ hist.search = "fail"
  /\ hist.draft = "ok"
  /\ Len(retrieval.context) > 0
  /\ Len(webResults.aiSummary) > 0

\* C35 for the CommonJS service: the result of the fallback path reaches
\* the draft prompt with the not-live tag or as the unavailable marker
C35_FallbackTaggedInDraftJs ==
  (call.op = "js.search" /\ call.called)
    => LET p == Js_DraftPrompt(call.query, <<>>, call.ret.value)
       IN \/ Contains(p, NotLiveTag) /\ call.ret.value.fallback
          \/ Contains(p, JsUnavailable) /\ call.ret.value.error

\* C36: the embedding cache holds exactly the texts whose embedding
\* succeeded since the cache was last cleared, each with the vector first
\* stored for it
C36_CacheIsFirstVectors == embeddingCache = firstVector

\* C36, what holds of the texts alone: the cached texts are those embedded
\* with success since the last clearing
C36_CachedTextsAreEmbedded == DOMAIN embeddingCache = DOMAIN firstVector

\* C37: an agent constructed with evaluatorCount = n runs n judges per
\* query and evaluateResponse returns n evaluations
C37_JudgesAsConfigured ==
  (call.op = "new RAGMultiModelAgent" /\ Completed(evalRet) /\ ~evalRet.threw)
    => /\ Len(evalRet.value) = call.evaluatorCount
       /\ Cardinality({j \in Judges : hist.calls.judge[j] = 1}) = call.evaluatorCount

\* C37, what the constructor does: whatever evaluatorCount is configured,
\* three judges are run and three evaluations are returned
C37_ThreeJudgesAlways ==
  (call.op = "new RAGMultiModelAgent" /\ Completed(evalRet) /\ ~evalRet.threw)
    => /\ Len(evalRet.value) = Len(evaluationModels)
       /\ \A j \in Judges : hist.calls.judge[j] = 1

\* the chunk of the loaded documents an index key stands for
ChunksKeyed(key) ==
  {i \in 1..Len(getAllChunks(documents)) : ChunkKey(getAllChunks(documents)[i]) = key}

\* C39: when indexDocuments has completed, every key of the index is the
\* key of a chunk of the loaded documents and its entry is the embedding
\* of that chunk's text
C39_IndexMatchesChunks ==
  indexPc = "ready"
    => \A key \in DOMAIN chunkEmbeddings :
         /\ ChunksKeyed(key) # {}
         /\ \A i \in ChunksKeyed(key) :
              LET chunk == getAllChunks(documents)[i]
              IN /\ chunk.text \in DOMAIN embeddingCache
                 /\ chunkEmbeddings[key] = embeddingCache[chunk.text]

\* C40: the enhanced query handed to web search is not empty (every query
\* of Queries is non-empty), and it is the original query when the
\* generation answered with a blank text
C40_EnhancedNeverEmpty ==
  pc = "search"
    => /\ userQuery # <<>>
       /\ queryEnhancement.enhanced # <<>>
       /\ Trim(queryEnhancement.enhanced) # <<>>

\* C40, what holds of the TypeScript agent: the enhanced query is the
\* original one when there is no context or the generation fails, and the
\* trimmed answer of the generation otherwise, empty for a blank answer
C40_EnhancedIsTrimmedAnswer ==
  pc = "search"
    => \/ queryEnhancement.enhanced = userQuery /\ hist.enhance \in {"skipped", "fail"}
       \/ /\ hist.enhance = "ok"
          /\ queryEnhancement.enhanced \in {Trim(t) : t \in EnhanceAnswers}
====
